---- MODULE Spec2Model ----
(***************************************************************************)
(* The Proxmox integration.                                                *)
(*  - Spec: the restore side, ProxmoxExporter.Export and the helpers it    *)
(*    calls (exporter/exporter.go, internal/proxmox/metadata.go,           *)
(*    internal/proxmox/dumpname.go).                                       *)
(*  - StreamSpec: the backup capture, Client.BackupVMStream and its reader,*)
(*    and the remote read and write handles.                               *)
(*  - RunnerSpec: Run on the local and on the remote executor.             *)
(*  - CacheSpec: the resource inventory and its cache.                     *)
(*  - CodecSpec: the filename codecs applied to names.                     *)
(*  - ImportSpec: the backup side, ProxmoxImporter.Import.                 *)
(*  - CancelSpec: the operations of the executors under cancellation.      *)
(*  - LiveSpec: a capture step by step, with its child and its drain.      *)
(*  - ShellSpec: the command lines of the remote executor.                 *)
(*                                                                         *)
(* Strings are sequences of one-character strings, so that the filename    *)
(* codecs and the diagnostic matching are computed the way the Go code     *)
(* computes them.                                                          *)
(***************************************************************************)
EXTENDS Integers, Sequences, FiniteSets, TLC

VARIABLES
    cfg,                \* proxmox.Config fields read by the exporter
    metadataByArchive,  \* archive name -> decoded metadata waiting for its payload
    pendingDumps,       \* archive name -> staged payload waiting for its metadata
    pc,                 \* "loop": ranging over records, "done": Export returned
    received,           \* the records taken from the records channel so far
    trace,              \* calls made on the client and sends on the results channel
    proc,               \* the vzdump child process of a capture: what it writes, how it exits
    capture,            \* BackupVMStream's return values and the fields of its reader
    remote,             \* an sshReadCloser or sshWriteCloser and the session behind it
    command,            \* the behaviour of a command handed to Runner.Run
    results,            \* what LocalRunner.Run and SSHRunner.Run returned for it
    now,                \* the clock read by time.Now and time.Since
    cluster,            \* the inventory the cluster answers with
    resourceCache,      \* Client.resourceCache, and when it was read from the cluster
    resourceCacheAt,    \* Client.resourceCacheAt
    calls,              \* the inventory calls in progress and the answers given
    codec,              \* a filename handed to a codec function and what it returned
    importer,           \* ProxmoxImporter.Import: its position, the records it sent, its calls
    inflight,           \* the context's state and the operations the executors have started
    live,               \* a running capture: the child, its two pipes, the drain and the caller
    shell               \* the command line the remote executor hands to a session

exportVars == <<cfg, metadataByArchive, pendingDumps, pc, received, trace>>
streamVars == <<proc, capture, remote>>
runnerVars == <<command, results>>
cacheVars == <<now, cluster, resourceCache, resourceCacheAt, calls>>
codecVars == <<codec>>
importVars == <<importer>>
cancelVars == <<inflight>>
liveVars == <<live>>
shellVars == <<shell>>
vars == <<exportVars, streamVars, runnerVars, cacheVars, codecVars, importVars,
          cancelVars, liveVars, shellVars>>

\* The number of records a restore job sends.
MaxRecords == 3

\* Each specification exercises one part of the program; the variables of the
\* other parts hold NotUsed and never change.
NotUsed == "not used"
ExportIdle ==
    /\ cfg = NotUsed /\ metadataByArchive = NotUsed /\ pendingDumps = NotUsed
    /\ pc = NotUsed /\ received = NotUsed /\ trace = NotUsed
StreamIdle == proc = NotUsed /\ capture = NotUsed /\ remote = NotUsed
RunnerIdle == command = NotUsed /\ results = NotUsed
CacheIdle ==
    /\ now = NotUsed /\ cluster = NotUsed /\ resourceCache = NotUsed
    /\ resourceCacheAt = NotUsed /\ calls = NotUsed
CodecIdle == codec = NotUsed
ImportIdle == importer = NotUsed
CancelIdle == inflight = NotUsed
LiveIdle == live = NotUsed
ShellIdle == shell = NotUsed

-----------------------------------------------------------------------------
(* Character strings *)

metadataPrefix == <<".","p","l","a","k","a","r","-","m","e","t","a","-">>
metadataSuffix == <<".","j","s","o","n">>
MetadataFormat ==
    <<"p","r","o","x","m","o","x","-","b","a","c","k","u","p","-","m","e","t","a">>
MetadataVersion == 1
DumpFilenameVersion == 1

S_vzdump == <<"v","z","d","u","m","p">>
S_qemu == <<"q","e","m","u">>
S_lxc == <<"l","x","c">>
S_qm == <<"q","m">>
S_pct == <<"p","c","t">>
S_qmrestore == <<"q","m","r","e","s","t","o","r","e">>
S_restore == <<"r","e","s","t","o","r","e">>
S_stop == <<"s","t","o","p">>
S_force == <<"-","-","f","o","r","c","e">>
DefaultDumpDir == <<"/","v","a","r","/","l","i","b","/","v","z","/","d","u","m","p">>

Digits == <<"0","1","2","3","4","5","6","7","8","9">>
Uppers == <<"A","B","C","D","E","F","G","H","I","J","K","L","M",
            "N","O","P","Q","R","S","T","U","V","W","X","Y","Z">>
Lowers == <<"a","b","c","d","e","f","g","h","i","j","k","l","m",
            "n","o","p","q","r","s","t","u","v","w","x","y","z">>
WhiteSpace == {" ", "\t", "\n", "\r"}

DigitSet == {Digits[i] : i \in 1..10}
IsDigit(c) == c \in DigitSet
DigitVal(c) == (CHOOSE i \in 1..10 : Digits[i] = c) - 1

\* strings.HasPrefix, strings.HasSuffix, strings.TrimPrefix, strings.TrimSuffix
HasPrefix(s, p) == Len(s) >= Len(p) /\ SubSeq(s, 1, Len(p)) = p
HasSuffix(s, p) == Len(s) >= Len(p) /\ SubSeq(s, Len(s) - Len(p) + 1, Len(s)) = p
TrimPrefix(s, p) == IF HasPrefix(s, p) THEN SubSeq(s, Len(p) + 1, Len(s)) ELSE s
TrimSuffix(s, p) == IF HasSuffix(s, p) THEN SubSeq(s, 1, Len(s) - Len(p)) ELSE s

\* strings.Contains
Contains(s, sub) ==
    \E i \in 0..(Len(s) - Len(sub)) : SubSeq(s, i + 1, i + Len(sub)) = sub

\* strings.ToLower on the ASCII letters
ToLowerChar(c) ==
    IF \E i \in 1..26 : Uppers[i] = c
    THEN Lowers[CHOOSE i \in 1..26 : Uppers[i] = c]
    ELSE c
ToLower(s) == [i \in 1..Len(s) |-> ToLowerChar(s[i])]

\* The first index from i upwards, and the last index from i downwards, at
\* which s has a character outside (inside, for LastIn) the set cs; Len(s) + 1
\* and 0 when there is none.
RECURSIVE FirstNotIn(_, _, _)
FirstNotIn(s, cs, i) ==
    IF i > Len(s) \/ s[i] \notin cs THEN i ELSE FirstNotIn(s, cs, i + 1)
RECURSIVE LastNotIn(_, _, _)
LastNotIn(s, cs, i) ==
    IF i < 1 \/ s[i] \notin cs THEN i ELSE LastNotIn(s, cs, i - 1)
RECURSIVE LastIn(_, _, _)
LastIn(s, cs, i) ==
    IF i < 1 \/ s[i] \in cs THEN i ELSE LastIn(s, cs, i - 1)

\* strings.TrimSpace
TrimSpace(s) == SubSeq(s, FirstNotIn(s, WhiteSpace, 1), LastNotIn(s, WhiteSpace, Len(s)))

\* strconv.Itoa
RECURSIVE ItoaNat(_)
ItoaNat(n) == IF n < 10 THEN <<Digits[n + 1]>>
              ELSE ItoaNat(n \div 10) \o <<Digits[(n % 10) + 1]>>
Itoa(n) == IF n < 0 THEN <<"-">> \o ItoaNat(-n) ELSE ItoaNat(n)

\* strconv.Atoi on a non-empty run of decimal digits
RECURSIVE AtoiDigits(_)
AtoiDigits(s) == IF s = <<>> THEN 0
                 ELSE AtoiDigits(SubSeq(s, 1, Len(s) - 1)) * 10 + DigitVal(s[Len(s)])

\* The largest int, 1<<63 - 1, in decimal.
S_maxInt == <<"9","2","2","3","3","7","2","0","3","6","8","5","4","7","7","5","8","0","7">>

\* strconv.Atoi returning ErrRange on a run of decimal digits: the number,
\* without its leading zeros, is larger than the largest int.
AtoiOutOfRange(s) ==
    LET t == SubSeq(s, FirstNotIn(s, {"0"}, 1), Len(s))
    IN  \/ Len(t) > Len(S_maxInt)
        \/ /\ Len(t) = Len(S_maxInt)
           /\ \E i \in 1..Len(t) :
                /\ DigitVal(t[i]) > DigitVal(S_maxInt[i])
                /\ \A j \in 1..(i - 1) : t[j] = S_maxInt[j]

\* strings.Index: the position before the first occurrence of sub in s, -1
\* when there is none.
Index(s, sub) ==
    IF Contains(s, sub)
    THEN CHOOSE i \in 0..(Len(s) - Len(sub)) :
            /\ SubSeq(s, i + 1, i + Len(sub)) = sub
            /\ \A j \in 0..(i - 1) : SubSeq(s, j + 1, j + Len(sub)) # sub
    ELSE 0 - 1

\* path.Base: trailing slashes are dropped, then everything up to the last
\* slash
PathBase(p) ==
    IF p = <<>> THEN <<".">>
    ELSE LET last == LastNotIn(p, {"/"}, Len(p))
         IN  IF last = 0 THEN <<"/">>
             ELSE SubSeq(p, LastIn(p, {"/"}, last) + 1, last)

\* path.Join(dir, base) for a clean absolute dir and a base without slashes
PathJoin(dir, base) == dir \o <<"/">> \o base

-----------------------------------------------------------------------------
(* Errors: the message of the Go error and the value formatted into it *)

NoErr == [msg |-> "", detail |-> <<>>]
Err(msg, detail) == [msg |-> msg, detail |-> detail]

-----------------------------------------------------------------------------
(* internal/proxmox/metadata.go *)

MetadataFilename(archiveName) == metadataPrefix \o archiveName \o metadataSuffix

\* ParseMetadataFilename dropping every trailing suffix.
ParseMetadataFilename_TrimAll(name) ==
    IF ~HasPrefix(name, metadataPrefix) \/ ~HasSuffix(name, metadataSuffix)
    THEN [archiveName |-> <<>>, ok |-> FALSE]
    ELSE LET once == TrimSuffix(TrimPrefix(name, metadataPrefix), metadataSuffix)
             archiveName == TrimSuffix(once, metadataSuffix)
         IN  IF archiveName = <<>>
             THEN [archiveName |-> <<>>, ok |-> FALSE]
             ELSE [archiveName |-> archiveName, ok |-> TRUE]

\* (archiveName, ok)
ParseMetadataFilename(name) ==
    IF ~HasPrefix(name, metadataPrefix) \/ ~HasSuffix(name, metadataSuffix)
    THEN [archiveName |-> <<>>, ok |-> FALSE]
    ELSE LET archiveName == TrimSuffix(TrimPrefix(name, metadataPrefix), metadataSuffix)
         IN  IF archiveName = <<>>
             THEN [archiveName |-> <<>>, ok |-> FALSE]
             ELSE [archiveName |-> archiveName, ok |-> TRUE]

\* The zero value of DumpMetadata; an absent JSON field decodes to its zero value.
ZeroMetadata ==
    [Format |-> <<>>, Version |-> 0, VMID |-> 0, VMType |-> <<>>, ArchiveName |-> <<>>]

\* A sidecar body is either text json.Unmarshal rejects (json = FALSE) or an
\* object with the fields below.  (meta, err)
DecodeDumpMetadata(body) ==
    IF ~body.json
    THEN [meta |-> ZeroMetadata, err |-> Err("invalid character", <<>>)]
    ELSE IF body.Format # <<>> /\ body.Format # MetadataFormat
    THEN [meta |-> ZeroMetadata, err |-> Err("unsupported metadata format", body.Format)]
    ELSE IF body.Version # 0 /\ body.Version # MetadataVersion
    THEN [meta |-> ZeroMetadata,
          err |-> Err("unsupported metadata version", Itoa(body.Version))]
    ELSE [meta |-> [Format |-> body.Format, Version |-> body.Version,
                    VMID |-> body.VMID, VMType |-> body.VMType,
                    ArchiveName |-> body.ArchiveName],
          err |-> NoErr]

-----------------------------------------------------------------------------
(* internal/proxmox/dumpname.go *)

\* The length of the longest prefix of s made of decimal digits (\d+ is greedy).
DigitRun(s) == FirstNotIn(s, DigitSet, 1) - 1

\* -(qemu|lxc)-(\d+)- at the start of s.  (ok, kind, digits)
MatchKindAndID(s) ==
    LET kind == IF HasPrefix(s, <<"-">> \o S_qemu) THEN S_qemu
                ELSE IF HasPrefix(s, <<"-">> \o S_lxc) THEN S_lxc ELSE <<>>
        rest == SubSeq(s, Len(kind) + 2, Len(s))
        n == IF HasPrefix(rest, <<"-">>) THEN DigitRun(SubSeq(rest, 2, Len(rest))) ELSE 0
    IN  IF kind # <<>> /\ n > 0 /\ Len(rest) >= n + 2 /\ rest[n + 2] = "-"
        THEN [ok |-> TRUE, kind |-> kind, digits |-> SubSeq(rest, 2, n + 1)]
        ELSE [ok |-> FALSE, kind |-> <<>>, digits |-> <<>>]

\* dumpNameRegex: ^vzdump(?:-v(\d+))?-(qemu|lxc)-(\d+)-   (ok, version, kind, digits)
dumpNameRegex(base) ==
    LET rest == SubSeq(base, Len(S_vzdump) + 1, Len(base))
        vn == IF HasPrefix(rest, <<"-","v">>)
              THEN DigitRun(SubSeq(rest, 3, Len(rest))) ELSE 0
        versioned == MatchKindAndID(SubSeq(rest, vn + 3, Len(rest)))
        plain == MatchKindAndID(rest)
    IN  IF ~HasPrefix(base, S_vzdump)
        THEN [ok |-> FALSE, version |-> <<>>, kind |-> <<>>, digits |-> <<>>]
        ELSE IF vn > 0 /\ versioned.ok
        THEN [ok |-> TRUE, version |-> SubSeq(rest, 3, vn + 2),
              kind |-> versioned.kind, digits |-> versioned.digits]
        ELSE [ok |-> plain.ok, version |-> <<>>,
              kind |-> plain.kind, digits |-> plain.digits]

\* ParseDumpFilename without the version test.
ParseDumpFilename_AnyVersion(name) ==
    LET base == PathBase(name)
        matches == dumpNameRegex(base)
    IN  IF ~matches.ok
        THEN [vmType |-> <<>>, vmid |-> 0, err |-> Err("invalid vzdump filename", base)]
        ELSE IF AtoiOutOfRange(matches.digits)
        THEN [vmType |-> <<>>, vmid |-> 0, err |-> Err("invalid vmid in filename", base)]
        ELSE [vmType |-> matches.kind, vmid |-> AtoiDigits(matches.digits), err |-> NoErr]

\* (vmType, vmid, err)
ParseDumpFilename(name) ==
    LET base == PathBase(name)
        matches == dumpNameRegex(base)
    IN  IF ~matches.ok
        THEN [vmType |-> <<>>, vmid |-> 0, err |-> Err("invalid vzdump filename", base)]
        ELSE IF matches.version # <<>> /\ AtoiOutOfRange(matches.version)
        THEN [vmType |-> <<>>, vmid |-> 0,
              err |-> Err("invalid vzdump filename version", base)]
        ELSE IF matches.version # <<>> /\ AtoiDigits(matches.version) # DumpFilenameVersion
        THEN [vmType |-> <<>>, vmid |-> 0,
              err |-> Err("unsupported vzdump filename version",
                          Itoa(AtoiDigits(matches.version)))]
        ELSE IF AtoiOutOfRange(matches.digits)
        THEN [vmType |-> <<>>, vmid |-> 0, err |-> Err("invalid vmid in filename", base)]
        ELSE [vmType |-> matches.kind, vmid |-> AtoiDigits(matches.digits), err |-> NoErr]

\* archiveSuffixRegex: ^\.(vma|tar)(\.[a-z0-9]+)?$
archiveSuffixRegex(s) ==
    /\ HasPrefix(s, <<".","v","m","a">>) \/ HasPrefix(s, <<".","t","a","r">>)
    /\ \/ Len(s) = 4
       \/ /\ Len(s) > 5 /\ s[5] = "."
          /\ \A i \in 6..Len(s) :
                \/ IsDigit(s[i])
                \/ \E k \in 1..26 : Lowers[k] = s[i]

canonicalArchiveSuffix(originalName, vmType) ==
    LET baseExt == IF vmType = S_lxc THEN <<".","t","a","r">> ELSE <<".","v","m","a">>
        baseName == PathBase(originalName)
        idx == Index(ToLower(baseName), baseExt)
        suffix == SubSeq(baseName, idx + 1, Len(baseName))
    IN  IF idx < 0 THEN baseExt
        ELSE IF archiveSuffixRegex(ToLower(suffix)) THEN suffix
        ELSE baseExt

\* BuildRestoreDumpFilename; timestamp is now.Format("2006_01_02-15_04_05").
BuildRestoreDumpFilename(originalName, vmType, vmid, timestamp) ==
    S_vzdump \o <<"-">> \o vmType \o <<"-">> \o Itoa(vmid) \o <<"-">> \o timestamp
    \o canonicalArchiveSuffix(originalName, vmType)

-----------------------------------------------------------------------------
(* The calls Export makes on the client and the sends on the results channel.
   Every event has the same fields; a field an operation does not use keeps its
   zero value. *)

NoRun == [stdout |-> <<>>, stderr |-> <<>>, failed |-> FALSE]
Ev(op) == [op |-> op, rec |-> 0, path |-> <<>>, name |-> <<>>, args |-> <<>>,
           out |-> NoRun, err |-> NoErr, archive |-> <<>>]

EvCreate(path, err) == [Ev("Create") EXCEPT !.path = path, !.err = err]
EvCopy(path, err) == [Ev("Copy") EXCEPT !.path = path, !.err = err]
EvCloseWriter(path, err) == [Ev("CloseWriter") EXCEPT !.path = path, !.err = err]
EvRemove(path, err) == [Ev("Remove") EXCEPT !.path = path, !.err = err]
EvRun(name, args, out) == [Ev("Run") EXCEPT !.name = name, !.args = args, !.out = out]
EvCloseRecord(rec, err) == [Ev("CloseRecord") EXCEPT !.rec = rec, !.err = err]
\* EvResult reporting every result for the first record of the job.
EvResult_FirstRecord(rec, err) == [Ev("Result") EXCEPT !.rec = 1, !.err = err]
\* results <- resultFromRecord(record, err), record.Ok(), record.Error(err)
EvResult(rec, err) == [Ev("Result") EXCEPT !.rec = rec, !.err = err]

\* The commands among evs, marked with the archive they are run for (the
\* mark is not part of the command).
RECURSIVE ForArchive(_, _)
ForArchive(evs, archiveName) ==
    IF evs = <<>> THEN <<>>
    ELSE <<[evs[1] EXCEPT !.archive = archiveName]>> \o ForArchive(Tail(evs), archiveName)

\* Go maps
MapPut(m, k, v) == [x \in (DOMAIN m) \cup {k} |-> IF x = k THEN v ELSE m[x]]
\* delete leaving the entry in the map.
MapDel_Keep(m, k) == m
MapDel(m, k) == [x \in (DOMAIN m) \ {k} |-> m[x]]
EmptyMap == [x \in {} |-> 0]

-----------------------------------------------------------------------------
(* exporter/exporter.go: helpers *)

\* validateMetadata with the vmid test written meta.VMID < 0.
validateMetadata_ZeroVMID(archiveName, meta) ==
    IF meta.ArchiveName # <<>> /\ meta.ArchiveName # archiveName
    THEN Err("metadata archive mismatch", meta.ArchiveName)
    ELSE IF meta.VMID < 0
    THEN Err("metadata missing vmid for archive", archiveName)
    ELSE IF meta.VMType # S_qemu /\ meta.VMType # S_lxc
    THEN Err("metadata missing vm_type for archive", archiveName)
    ELSE NoErr

\* error
validateMetadata(archiveName, meta) ==
    IF meta.ArchiveName # <<>> /\ meta.ArchiveName # archiveName
    THEN Err("metadata archive mismatch", meta.ArchiveName)
    ELSE IF meta.VMID <= 0
    THEN Err("metadata missing vmid for archive", archiveName)
    ELSE IF meta.VMType # S_qemu /\ meta.VMType # S_lxc
    THEN Err("metadata missing vm_type for archive", archiveName)
    ELSE NoErr

\* resolveRestoreTarget taking the target from the filename, not the sidecar.
resolveRestoreTarget_FromFilename(filename, meta) == ParseDumpFilename(filename)

\* (vmType, vmid, err)
resolveRestoreTarget(filename, meta) ==
    IF validateMetadata(filename, meta) # NoErr
    THEN [vmType |-> <<>>, vmid |-> 0, err |-> validateMetadata(filename, meta)]
    ELSE [vmType |-> meta.VMType, vmid |-> meta.VMID, err |-> NoErr]

S_notRunning == <<"n","o","t"," ","r","u","n","n","i","n","g">>
S_alreadyStopped == <<"a","l","r","e","a","d","y"," ","s","t","o","p","p","e","d">>
S_doesNotExist == <<"d","o","e","s"," ","n","o","t"," ","e","x","i","s","t">>
S_noSuchVM == <<"n","o"," ","s","u","c","h"," ","v","m">>
S_noSuchContainer ==
    <<"n","o"," ","s","u","c","h"," ","c","o","n","t","a","i","n","e","r">>
S_configurationFile ==
    <<"c","o","n","f","i","g","u","r","a","t","i","o","n"," ","f","i","l","e">>

\* isIgnorableStopError without the lower-casing.
isIgnorableStopError_CaseSensitive(output) ==
    IF output = <<>> THEN FALSE
    ELSE \/ Contains(output, S_notRunning)
         \/ Contains(output, S_alreadyStopped)
         \/ Contains(output, S_doesNotExist)
         \/ Contains(output, S_noSuchVM)
         \/ Contains(output, S_noSuchContainer)
         \/ Contains(output, S_configurationFile)

\* isIgnorableStopError ignoring every failure that printed something.
isIgnorableStopError_AnyOutput(output) == output # <<>>

isIgnorableStopError(output) ==
    IF output = <<>> THEN FALSE
    ELSE LET normalized == ToLower(output)
         IN  \/ Contains(normalized, S_notRunning)
             \/ Contains(normalized, S_alreadyStopped)
             \/ Contains(normalized, S_doesNotExist)
             \/ Contains(normalized, S_noSuchVM)
             \/ Contains(normalized, S_noSuchContainer)
             \/ Contains(normalized, S_configurationFile)

\* stopRun is what client.Run returns for the stop command.  (err, evs)
stopVM(vmType, vmid, stopRun) ==
    IF vmType # S_qemu /\ vmType # S_lxc
    THEN [err |-> Err("unsupported backup type", vmType), evs |-> <<>>]
    ELSE LET cmd == IF vmType = S_qemu THEN S_qm ELSE S_pct
             ev == EvRun(cmd, <<S_stop, Itoa(vmid)>>, stopRun)
             output == IF TrimSpace(stopRun.stderr) = <<>>
                       THEN TrimSpace(stopRun.stdout)
                       ELSE TrimSpace(stopRun.stderr)
         IN  IF stopRun.failed /\ ~isIgnorableStopError(output)
             THEN [err |-> Err("stop failed", output), evs |-> <<ev>>]
             ELSE [err |-> NoErr, evs |-> <<ev>>]

\* restoreCommand passing --force only when restore_force is set.
restoreCommand_ForceIfConfigured(vmType, vmid, dumpPath) ==
    LET force == IF cfg.RestoreForce THEN <<S_force>> ELSE <<>>
    IN  IF vmType = S_qemu
        THEN [cmd |-> S_qmrestore, args |-> <<dumpPath, Itoa(vmid)>> \o force]
        ELSE [cmd |-> S_pct, args |-> <<S_restore, Itoa(vmid), dumpPath>> \o force]

\* Lines 200-213, the command line of the restore: (cmd, args)
restoreCommand(vmType, vmid, dumpPath) ==
    IF vmType = S_qemu
    THEN [cmd |-> S_qmrestore, args |-> <<dumpPath, Itoa(vmid), S_force>>]
    ELSE [cmd |-> S_pct, args |-> <<S_restore, Itoa(vmid), dumpPath, S_force>>]

\* io.stop and io.restore are what client.Run returns for the two commands.
\* (err, evs)
restoreDump(dumpPath, filename, meta, io) ==
    LET target == resolveRestoreTarget(filename, meta)
        stopped == stopVM(target.vmType, target.vmid, io.stop)
        rc == restoreCommand(target.vmType, target.vmid, dumpPath)
        ev == EvRun(rc.cmd, rc.args, io.restore)
    IN  IF target.err # NoErr THEN [err |-> target.err, evs |-> <<>>]
        ELSE IF stopped.err # NoErr
        THEN [err |-> stopped.err, evs |-> ForArchive(stopped.evs, filename)]
        ELSE IF io.restore.failed
        THEN [err |-> Err("restore failed", TrimSpace(io.restore.stderr)),
              evs |-> ForArchive(stopped.evs \o <<ev>>, filename)]
        ELSE [err |-> NoErr, evs |-> ForArchive(stopped.evs \o <<ev>>, filename)]

\* io.write names the step of the staging write that fails, if any.  (err, evs)
writeDump(dumpPath, io) ==
    IF io.write = "create"
    THEN [err |-> Err("create failed", dumpPath),
          evs |-> <<EvCreate(dumpPath, Err("create failed", dumpPath))>>]
    ELSE IF io.write = "copy"
    THEN [err |-> Err("copy failed", dumpPath),
          evs |-> <<EvCreate(dumpPath, NoErr),
                    EvCopy(dumpPath, Err("copy failed", dumpPath)),
                    EvCloseWriter(dumpPath, NoErr)>>]
    ELSE IF io.write = "close"
    THEN [err |-> Err("close failed", dumpPath),
          evs |-> <<EvCreate(dumpPath, NoErr), EvCopy(dumpPath, NoErr),
                    EvCloseWriter(dumpPath, Err("close failed", dumpPath))>>]
    ELSE [err |-> NoErr,
          evs |-> <<EvCreate(dumpPath, NoErr), EvCopy(dumpPath, NoErr),
                    EvCloseWriter(dumpPath, NoErr)>>]

\* io.closeRecord tells whether record.Close fails.  (err, evs)
closeRecord(record, io) ==
    LET err == IF io.closeRecord THEN Err("record close failed", record.Pathname)
               ELSE NoErr
    IN  [err |-> err, evs |-> <<EvCloseRecord(record.id, err)>>]

\* client.Remove: io.remove tells whether it fails.
clientRemove(path, io) ==
    IF io.remove THEN Err("remove failed", path) ELSE NoErr

-----------------------------------------------------------------------------
(* The restore jobs of the model: configurations, records and the answers of
   the hypervisor's commands and of the staging file system. *)

NoFilter == [set |-> FALSE, v |-> 0]
Filter(v) == [set |-> TRUE, v |-> v]

Configs ==
    { [RestoreVMID |-> NoFilter,  Cleanup |-> FALSE, RestoreForce |-> FALSE,
       DumpDir |-> DefaultDumpDir],
      [RestoreVMID |-> NoFilter,  Cleanup |-> TRUE,  RestoreForce |-> TRUE,
       DumpDir |-> DefaultDumpDir],
      [RestoreVMID |-> Filter(1), Cleanup |-> TRUE,  RestoreForce |-> FALSE,
       DumpDir |-> DefaultDumpDir],
      [RestoreVMID |-> Filter(2), Cleanup |-> FALSE, RestoreForce |-> TRUE,
       DumpDir |-> DefaultDumpDir] }

\* vzdump-qemu-1-t.vma follows the canonical grammar, old.vma does not.
CanonicalName == S_vzdump \o <<"-">> \o S_qemu \o <<"-","1","-","t",".","v","m","a">>
CustomName == <<"o","l","d",".","v","m","a">>
ArchiveNames == {CanonicalName, CustomName}
OtherName(n) == IF n = CanonicalName THEN CustomName ELSE CanonicalName

NoBody == [json |-> FALSE] @@ ZeroMetadata
Body(format, version, vmid, vmType, archiveName) ==
    [json |-> TRUE, Format |-> format, Version |-> version, VMID |-> vmid,
     VMType |-> vmType, ArchiveName |-> archiveName]

\* The sidecar bodies sent under the sidecar name of archive n.
SidecarBodies(n) ==
    { Body(<<>>, 0, 1, S_qemu, <<>>),                  \* no tags, no archive name
      Body(MetadataFormat, 1, 2, S_lxc, n),
      Body(MetadataFormat, 1, 1, S_qemu, OtherName(n)), \* names another archive
      Body(MetadataFormat, 1, 0, S_qemu, n),            \* no vmid
      Body(MetadataFormat, 1, 1, <<>>, n),              \* no vm_type
      Body(<<"x">>, 1, 1, S_qemu, n),                   \* another format tag
      Body(MetadataFormat, 2, 1, S_qemu, n),            \* another version
      NoBody }                                          \* not JSON

Record(id, pathname, skip, body) ==
    [id |-> id, Pathname |-> pathname, Err |-> skip = "err", IsXattr |-> skip = "xattr",
     IsRegular |-> skip # "dir", body |-> body]

\* The records that may arrive as record number id.
Records(id) ==
    { Record(id, <<"/">> \o n, "", NoBody) : n \in ArchiveNames }
    \cup UNION { { Record(id, <<"/">> \o MetadataFilename(n), "", b) :
                     b \in SidecarBodies(n) } : n \in ArchiveNames }
    \cup { Record(id, <<"/">> \o CanonicalName, k, NoBody) : k \in {"err", "xattr", "dir"} }

RunOk == NoRun
RunFailed(stdout, stderr) == [stdout |-> stdout, stderr |-> stderr, failed |-> TRUE]

S_permissionDenied ==
    <<"p","e","r","m","i","s","s","i","o","n"," ","d","e","n","i","e","d">>

\* What client.Run may return for the stop command.
StopRuns ==
    { RunOk,
      RunFailed(<<>>, <<" ","A","l","r","e","a","d","y"," ","S","T","O","P","P","E","D","\n">>),
      RunFailed(S_alreadyStopped, <<" ","\n">>),
      RunFailed(<<>>, S_permissionDenied),
      RunFailed(<<>>, S_permissionDenied \o <<":"," ">> \o S_configurationFile),
      RunFailed(<<>>, <<>>) }

\* What client.Run may return for the restore command.
RestoreRuns == { RunOk, RunFailed(<<>>, <<" ","b","a","d","\n">>) }

IODefault ==
    [write |-> "ok", closeRecord |-> FALSE, stop |-> RunOk, restore |-> RunOk,
     remove |-> FALSE]

\* The answers of the environment to the staging write and to the closing of
\* the record: at most one of the steps fails.
WriteIOs ==
    { [IODefault EXCEPT !.write = w] : w \in {"ok", "create", "copy", "close"} }
    \cup { [IODefault EXCEPT !.closeRecord = TRUE] }

\* The answers of the environment to the stop command, the restore command
\* and the removal of the staged file.
RestoreIOs ==
    { [IODefault EXCEPT !.stop = s, !.restore = r, !.remove = rm] :
        s \in StopRuns, r \in RestoreRuns, rm \in BOOLEAN }

-----------------------------------------------------------------------------
(* exporter/exporter.go: Export *)

filterVMID == cfg.RestoreVMID

\* The filter is set and name parses to another machine id.
filteredByName(name) ==
    /\ filterVMID.set
    /\ ParseDumpFilename(name).err = NoErr
    /\ ParseDumpFilename(name).vmid # filterVMID.v

\* filteredByVMID without the test.
filteredByVMID_Never(meta) == FALSE

\* Line 93: the filter is set and the sidecar states another machine id.
filteredByVMID(meta) == filterVMID.set /\ meta.VMID # filterVMID.v

isSkipped(record) == record.Err \/ record.IsXattr \/ ~record.IsRegular
base(record) == PathBase(record.Pathname)
isSidecar(record) == ~isSkipped(record) /\ ParseMetadataFilename(base(record)).ok
isPayload(record) == ~isSkipped(record) /\ ~ParseMetadataFilename(base(record)).ok

Init ==
    /\ cfg \in Configs
    /\ metadataByArchive = EmptyMap
    /\ pendingDumps = EmptyMap
    /\ pc = "loop"
    /\ received = <<>>
    /\ trace = <<>>
    /\ StreamIdle /\ RunnerIdle /\ CacheIdle /\ CodecIdle /\ ImportIdle
    /\ CancelIdle /\ LiveIdle /\ ShellIdle

\* Lines 75-78: a record that is an error, an xattr or not a regular file.
SkipRecord ==
    /\ pc = "loop" /\ Len(received) < MaxRecords
    /\ \E record \in Records(Len(received) + 1) :
        /\ isSkipped(record)
        /\ received' = Append(received, record)
        /\ trace' = Append(trace, EvResult(record.id, NoErr))
    /\ UNCHANGED <<cfg, metadataByArchive, pendingDumps, pc>>
    /\ UNCHANGED <<streamVars, runnerVars, cacheVars, codecVars, importVars, cancelVars, liveVars, shellVars>>

\* Lines 81-121: what the sidecar branch does with record.  (md, pd, evs)
sidecarBranch(record, io) ==
    LET archiveName == ParseMetadataFilename(base(record)).archiveName
        decoded == DecodeDumpMetadata(record.body)
        invalid == validateMetadata(archiveName, decoded.meta)
        meta == [decoded.meta EXCEPT !.ArchiveName = archiveName]
        hasPending == archiveName \in DOMAIN pendingDumps
        pending == pendingDumps[archiveName]
        restored == restoreDump(pending.dumpPath, archiveName, meta, io)
        cleaned == restored.err = NoErr /\ cfg.Cleanup
        pendingErr == IF cleaned THEN clientRemove(pending.dumpPath, io) ELSE restored.err
        same == [md |-> metadataByArchive, pd |-> pendingDumps]
    IN  IF filteredByName(archiveName)
        THEN same @@ [evs |-> <<EvResult(record.id, NoErr)>>]
        ELSE IF decoded.err # NoErr
        THEN same @@ [evs |-> <<EvResult(record.id, decoded.err)>>]
        ELSE IF filteredByVMID(decoded.meta)
        THEN same @@ [evs |-> <<EvResult(record.id, NoErr)>>]
        ELSE IF invalid # NoErr
        THEN IF hasPending
             THEN [md |-> metadataByArchive,
                   pd |-> MapDel(pendingDumps, archiveName),
                   evs |-> <<EvResult(record.id, invalid),
                             EvResult(pending.record, invalid)>>
                           \o (IF cfg.Cleanup
                               THEN <<EvRemove(pending.dumpPath,
                                               clientRemove(pending.dumpPath, io))>>
                               ELSE <<>>)]
             ELSE same @@ [evs |-> <<EvResult(record.id, invalid)>>]
        ELSE IF hasPending
        THEN [md |-> MapDel(MapPut(metadataByArchive, archiveName, meta), archiveName),
              pd |-> MapDel(pendingDumps, archiveName),
              evs |-> restored.evs
                      \o (IF cleaned THEN <<EvRemove(pending.dumpPath, pendingErr)>>
                          ELSE <<>>)
                      \o <<EvResult(pending.record, pendingErr),
                           EvResult(record.id, NoErr)>>]
        ELSE [md |-> MapPut(metadataByArchive, archiveName, meta),
              pd |-> pendingDumps,
              evs |-> <<EvResult(record.id, NoErr)>>]

\* The answers the sidecar branch can ask for: it runs commands and removes
\* a file only when the payload of the archive is already staged.
sidecarIOs(record) ==
    IF ParseMetadataFilename(base(record)).archiveName \in DOMAIN pendingDumps
    THEN RestoreIOs ELSE {IODefault}

SidecarRecord ==
    /\ pc = "loop" /\ Len(received) < MaxRecords
    /\ \E record \in Records(Len(received) + 1) :
        /\ isSidecar(record)
        /\ \E io \in sidecarIOs(record) :
            LET branch == sidecarBranch(record, io)
            IN  /\ received' = Append(received, record)
                /\ metadataByArchive' = branch.md
                /\ pendingDumps' = branch.pd
                /\ trace' = trace \o branch.evs
    /\ UNCHANGED <<cfg, pc>>
    /\ UNCHANGED <<streamVars, runnerVars, cacheVars, codecVars, importVars, cancelVars, liveVars, shellVars>>

\* stagePayload writing nothing while the metadata of the archive is missing.
stagePayload_OnlyWithMetadata(record, io) ==
    LET dumpPath == PathJoin(cfg.DumpDir, base(record))
        written == writeDump(dumpPath, io)
        closed == closeRecord(record, io)
    IN  IF base(record) \notin DOMAIN metadataByArchive
        THEN [err |-> NoErr, evs |-> <<>>]
        ELSE IF written.err # NoErr THEN written
        ELSE [err |-> closed.err, evs |-> written.evs \o closed.evs]

\* Lines 128-138: the payload is written to the staging directory and the
\* record is closed.  (err, evs)
stagePayload(record, io) ==
    LET dumpPath == PathJoin(cfg.DumpDir, base(record))
        written == writeDump(dumpPath, io)
        closed == closeRecord(record, io)
    IN  IF written.err # NoErr THEN written
        ELSE [err |-> closed.err, evs |-> written.evs \o closed.evs]

\* Lines 122-159: what the payload branch does with record.  (md, pd, evs)
payloadBranch(record, io) ==
    LET name == base(record)
        dumpPath == PathJoin(cfg.DumpDir, name)
        staged == stagePayload(record, io)
        hasMeta == name \in DOMAIN metadataByArchive
        restored == restoreDump(dumpPath, name, metadataByArchive[name], io)
        removed == clientRemove(dumpPath, io)
        same == [md |-> metadataByArchive, pd |-> pendingDumps]
    IN  IF filteredByName(name)
        THEN same @@ [evs |-> <<EvResult(record.id, NoErr)>>]
        ELSE IF staged.err # NoErr
        THEN same @@ [evs |-> staged.evs \o <<EvResult(record.id, staged.err)>>]
        ELSE IF ~hasMeta
        THEN [md |-> metadataByArchive,
              pd |-> MapPut(pendingDumps, name,
                            [record |-> record.id, dumpPath |-> dumpPath]),
              evs |-> staged.evs]
        ELSE IF restored.err # NoErr
        THEN same @@ [evs |-> staged.evs \o restored.evs
                              \o <<EvResult(record.id, restored.err)>>]
        ELSE [md |-> MapDel(metadataByArchive, name),
              pd |-> pendingDumps,
              evs |-> staged.evs \o restored.evs
                      \o (IF cfg.Cleanup THEN <<EvRemove(dumpPath, removed)>> ELSE <<>>)
                      \o <<EvResult(record.id, IF cfg.Cleanup THEN removed ELSE NoErr)>>]

\* The answers the payload branch can ask for: it runs commands only when the
\* metadata of the archive is already buffered.
payloadIOs(record) ==
    IF base(record) \in DOMAIN metadataByArchive
    THEN WriteIOs \cup RestoreIOs ELSE WriteIOs

PayloadRecord ==
    /\ pc = "loop" /\ Len(received) < MaxRecords
    /\ \E record \in Records(Len(received) + 1) :
        /\ isPayload(record)
        /\ \E io \in payloadIOs(record) :
            LET branch == payloadBranch(record, io)
            IN  /\ received' = Append(received, record)
                /\ metadataByArchive' = branch.md
                /\ pendingDumps' = branch.pd
                /\ trace' = trace \o branch.evs
    /\ UNCHANGED <<cfg, pc>>
    /\ UNCHANGED <<streamVars, runnerVars, cacheVars, codecVars, importVars, cancelVars, liveVars, shellVars>>

\* The pendingDumps entries in the order the final range visits them; Go leaves
\* the order of a map range open.
RECURSIVE Orders(_)
Orders(S) == IF S = {} THEN {<<>>}
             ELSE UNION { { <<x>> \o o : o \in Orders(S \ {x}) } : x \in S }

RECURSIVE flushPending(_, _)
flushPending(order, io) ==
    IF order = <<>> THEN <<>>
    ELSE LET archiveName == order[1]
             pending == pendingDumps[archiveName]
         IN  <<EvResult(pending.record, Err("missing metadata for archive", archiveName))>>
             \o (IF cfg.Cleanup
                 THEN <<EvRemove(pending.dumpPath, clientRemove(pending.dumpPath, io))>>
                 ELSE <<>>)
             \o flushPending(Tail(order), io)

\* Lines 162-170 and the deferred close(results): the records channel is closed.
EndOfRecords ==
    /\ pc = "loop"
    /\ \E order \in Orders(DOMAIN pendingDumps), rm \in BOOLEAN :
        trace' = trace \o flushPending(order, [IODefault EXCEPT !.remove = rm])
    /\ pc' = "done"
    /\ UNCHANGED <<cfg, metadataByArchive, pendingDumps, received>>
    /\ UNCHANGED <<streamVars, runnerVars, cacheVars, codecVars, importVars, cancelVars, liveVars, shellVars>>

Next == SkipRecord \/ SidecarRecord \/ PayloadRecord \/ EndOfRecords

Spec == Init /\ [][Next]_vars

-----------------------------------------------------------------------------
(* Vocabulary of the properties *)

\* The archive a sidecar or payload record belongs to.
ArchiveOf(record) ==
    IF ParseMetadataFilename(base(record)).ok
    THEN ParseMetadataFilename(base(record)).archiveName
    ELSE base(record)

Sidecars(archiveName) ==
    {i \in 1..Len(received) :
        isSidecar(received[i]) /\ ArchiveOf(received[i]) = archiveName}
Payloads(archiveName) ==
    {i \in 1..Len(received) :
        isPayload(received[i]) /\ ArchiveOf(received[i]) = archiveName}
StagedPath(archiveName) == PathJoin(cfg.DumpDir, archiveName)

IsStop(e) == e.op = "Run" /\ Len(e.args) = 2 /\ e.args[1] = S_stop
IsRestore(e) ==
    e.op = "Run" /\ (e.name = S_qmrestore \/ (e.name = S_pct /\ e.args[1] = S_restore))
Stops(archiveName) ==
    {i \in 1..Len(trace) : IsStop(trace[i]) /\ trace[i].archive = archiveName}
Restores(archiveName) ==
    {i \in 1..Len(trace) : IsRestore(trace[i]) /\ trace[i].archive = archiveName}
ResultsOf(id) == {i \in 1..Len(trace) : trace[i].op = "Result" /\ trace[i].rec = id}

\* The staging write of record id was completed and the record closed.
StagedOk(id) == \E i \in 1..Len(trace) : trace[i] = EvCloseRecord(id, NoErr)

\* What a sidecar body states, in the words of the specification.
Decodable(body) ==
    /\ body.json
    /\ body.Format \in {<<>>, MetadataFormat}
    /\ body.Version \in {0, MetadataVersion}
StatesValidTarget(body, archiveName) ==
    /\ body.ArchiveName \in {<<>>, archiveName}
    /\ body.VMID > 0
    /\ body.VMType \in {S_qemu, S_lxc}
PassesFilter(body, archiveName) ==
    \/ ~cfg.RestoreVMID.set
    \/ /\ body.VMID = cfg.RestoreVMID.v
       /\ \/ ParseDumpFilename(archiveName).err # NoErr
          \/ ParseDumpFilename(archiveName).vmid = cfg.RestoreVMID.v

\* The command lines of the integration's documentation.
StopsMachine(e, kind, id) ==
    /\ e.name = (IF kind = S_qemu THEN S_qm ELSE S_pct)
    /\ e.args = <<S_stop, Itoa(id)>>
RestoresMachine(e, kind, id, path) ==
    IF kind = S_qemu
    THEN e.name = S_qmrestore /\ e.args = <<path, Itoa(id), S_force>>
    ELSE e.name = S_pct /\ e.args = <<S_restore, Itoa(id), path, S_force>>

-----------------------------------------------------------------------------
(* C1 *)

\* A job holds one valid sidecar and one payload of archiveName, the filter
\* lets both through and the payload is staged.
OnePair(archiveName) ==
    /\ Cardinality(Sidecars(archiveName)) = 1
    /\ Cardinality(Payloads(archiveName)) = 1
    /\ \A i \in Sidecars(archiveName) :
        /\ Decodable(received[i].body)
        /\ StatesValidTarget(received[i].body, archiveName)
        /\ PassesFilter(received[i].body, archiveName)
    /\ \A i \in Payloads(archiveName) : StagedOk(received[i].id)

-----------------------------------------------------------------------------
(* C2 *)

\* C2: a staged payload whose sidecar has not arrived has no result while
\* records still arrive; when Export has returned it has exactly one result,
\* the error "missing metadata for archive: <name>", no stop or restore
\* command was run for its archive, and with cleanup Remove was called on its
\* staged path.
C2_LonePayloadReported ==
    \A p \in 1..Len(received) :
        LET archiveName == ArchiveOf(received[p])
            id == received[p].id
        IN  (isPayload(received[p]) /\ StagedOk(id) /\ Sidecars(archiveName) = {}) =>
                /\ pc = "loop" => ResultsOf(id) = {}
                /\ pc = "done" =>
                    /\ Cardinality(ResultsOf(id)) = 1
                    /\ \A i \in ResultsOf(id) :
                        trace[i].err = Err("missing metadata for archive", archiveName)
                    /\ cfg.Cleanup =>
                        \E i \in 1..Len(trace) :
                            trace[i].op = "Remove"
                            /\ trace[i].path = StagedPath(archiveName)
                /\ Stops(archiveName) = {} /\ Restores(archiveName) = {}

-----------------------------------------------------------------------------
(* C3 *)

\* C3: when Export has returned, every archive whose metadata is still
\* buffered has an error result on one of its records.
C3_OrphanSidecarReported ==
    pc = "done" =>
        \A archiveName \in DOMAIN metadataByArchive :
            \E i \in 1..Len(trace) :
                /\ trace[i].op = "Result" /\ trace[i].err # NoErr
                /\ ArchiveOf(received[trace[i].rec]) = archiveName

-----------------------------------------------------------------------------
(* C4 *)

\* The only sidecar received for archiveName decodes and fails validation.
OnlySidecarInvalid(archiveName) ==
    /\ Cardinality(Sidecars(archiveName)) = 1
    /\ \A s \in Sidecars(archiveName) :
        /\ Decodable(received[s].body)
        /\ ~StatesValidTarget(received[s].body, archiveName)

-----------------------------------------------------------------------------
(* C5 *)

Creates(archiveName) ==
    {i \in 1..Len(trace) :
        trace[i].op = "Create" /\ trace[i].path = StagedPath(archiveName)}

\* C5 as stated: if the only sidecar received for an archive fails validation,
\* Create is never called for the payload of the archive.
C5_InvalidSidecarNeverStaged ==
    \A archiveName \in ArchiveNames :
        OnlySidecarInvalid(archiveName) => Creates(archiveName) = {}

\* C5 as amended: if the only sidecar received for an archive fails
\* validation, Create is still called once for every payload of the archive that
\* arrives, before or after the sidecar, unless the filter skips the archive by
\* its filename; no restore command is run on the staged file.
C5_InvalidSidecarStagedNotRestored ==
    \A archiveName \in ArchiveNames :
        OnlySidecarInvalid(archiveName) =>
            /\ ~filteredByName(archiveName) =>
                   Cardinality(Creates(archiveName)) = Cardinality(Payloads(archiveName))
            /\ Restores(archiveName) = {}

\* The sidecar naming another archive arrived first, then the payload, which
\* was staged.
C5_Witness ==
    /\ Len(received) = 2
    /\ isSidecar(received[1]) /\ isPayload(received[2])
    /\ ArchiveOf(received[1]) = ArchiveOf(received[2])
    /\ OnlySidecarInvalid(ArchiveOf(received[2]))
    /\ received[1].body.ArchiveName = OtherName(ArchiveOf(received[1]))
    /\ Creates(ArchiveOf(received[2])) # {}
    /\ StagedOk(2)

-----------------------------------------------------------------------------
(* C6 *)

\* The machine id of archiveName differs from the filter: by its filename, or,
\* when the filename does not follow the grammar, by the id its sidecars state.
OtherMachine(archiveName) ==
    /\ cfg.RestoreVMID.set
    /\ IF ParseDumpFilename(archiveName).err = NoErr
       THEN ParseDumpFilename(archiveName).vmid # cfg.RestoreVMID.v
       ELSE /\ Sidecars(archiveName) # {}
            /\ \A s \in Sidecars(archiveName) :
                /\ Decodable(received[s].body)
                /\ received[s].body.VMID > 0
                /\ received[s].body.VMID # cfg.RestoreVMID.v

\* C6: with a filter, every record of an archive of another machine has only
\* Ok results, and one when Export has returned; the archive is not written to
\* staging, not buffered and not restored.
C6_FilteredUntouched ==
    \A r \in 1..Len(received) :
        LET archiveName == ArchiveOf(received[r])
        IN  (~isSkipped(received[r]) /\ OtherMachine(archiveName)) =>
                /\ Creates(archiveName) = {}
                /\ archiveName \notin DOMAIN pendingDumps
                /\ archiveName \notin DOMAIN metadataByArchive
                /\ Stops(archiveName) = {} /\ Restores(archiveName) = {}
                /\ \A i \in ResultsOf(received[r].id) : trace[i].err = NoErr
                /\ pc = "done" => ResultsOf(received[r].id) # {}

-----------------------------------------------------------------------------
(* C7 *)

\* C7: with a filter X, every stop and every restore command targets X.
C7_CommandsTargetFilter ==
    cfg.RestoreVMID.set =>
        \A i \in 1..Len(trace) :
            /\ IsStop(trace[i]) => trace[i].args[2] = Itoa(cfg.RestoreVMID.v)
            /\ IsRestore(trace[i]) => trace[i].args[2] = Itoa(cfg.RestoreVMID.v)

\* With a filter, old.vma, whose id only its sidecar states, was restored.
C7_Witness ==
    /\ cfg.RestoreVMID.set
    /\ Restores(CustomName) # {}

-----------------------------------------------------------------------------
(* C8, C9, C10 *)

\* The diagnostic text of a command: trimmed stderr, or trimmed stdout when
\* that is empty.
Diagnostic(out) ==
    IF TrimSpace(out.stderr) = <<>> THEN TrimSpace(out.stdout) ELSE TrimSpace(out.stderr)

\* The diagnostics of a machine that is not running or does not exist.
IgnorablePhrases ==
    {S_notRunning, S_alreadyStopped, S_doesNotExist, S_noSuchVM, S_noSuchContainer,
     S_configurationFile}
InIgnorableFamily(text) == \E phrase \in IgnorablePhrases : Contains(ToLower(text), phrase)

\* C8: every restore command comes right after a stop command for the same
\* kind and id, which succeeded or failed with an ignorable diagnostic, and
\* after a completed and closed write of the staged file; it is qmrestore
\* <file> <id> --force for a sidecar stating qemu and pct restore <id> <file>
\* --force for one stating lxc, whatever restore_force is.
C8_RestoreAfterStageAndStop ==
    \A i \in 1..Len(trace) :
        IsRestore(trace[i]) =>
            LET archiveName == trace[i].archive
                path == StagedPath(archiveName)
            IN  /\ i > 1 /\ IsStop(trace[i - 1]) /\ trace[i - 1].archive = archiveName
                /\ \/ ~trace[i - 1].out.failed
                   \/ InIgnorableFamily(Diagnostic(trace[i - 1].out))
                /\ \E s \in Sidecars(archiveName) :
                    /\ StopsMachine(trace[i - 1], received[s].body.VMType,
                                    received[s].body.VMID)
                    /\ RestoresMachine(trace[i], received[s].body.VMType,
                                       received[s].body.VMID, path)
                /\ \E j, k, l \in 1..i :
                    /\ j < k /\ k < l /\ l < i
                    /\ trace[j] = EvCreate(path, NoErr)
                    /\ trace[k] = EvCopy(path, NoErr)
                    /\ trace[l] = EvCloseWriter(path, NoErr)

\* restore_force is off and a restore command was run after a stop command
\* that failed.
C8_Witness ==
    /\ ~cfg.RestoreForce
    /\ \E i \in 2..Len(trace) : IsRestore(trace[i]) /\ trace[i - 1].out.failed

\* C9: a stop command that fails with a diagnostic containing "already
\* stopped", in any letter case, is followed at once by the restore command of
\* the same archive.
C9_AlreadyStoppedIgnored ==
    \A i \in 1..Len(trace) :
        (/\ IsStop(trace[i]) /\ trace[i].out.failed
         /\ Contains(ToLower(Diagnostic(trace[i].out)), S_alreadyStopped)) =>
            /\ i < Len(trace)
            /\ IsRestore(trace[i + 1])
            /\ trace[i + 1].archive = trace[i].archive

\* A stop command failed with " Already STOPPED" on stderr and the restore
\* command was run.
C9_Witness ==
    \E i \in 1..Len(trace) :
        /\ IsStop(trace[i]) /\ trace[i].out.failed
        /\ Contains(trace[i].out.stderr, <<"S","T","O","P","P","E","D">>)
        /\ i < Len(trace) /\ IsRestore(trace[i + 1])

\* The stop command at i was not swallowed: the next event is the error result.
StopReported(i) ==
    /\ i < Len(trace)
    /\ trace[i + 1].op = "Result"
    /\ trace[i + 1].err = Err("stop failed", Diagnostic(trace[i].out))
    /\ ArchiveOf(received[trace[i + 1].rec]) = trace[i].archive
    /\ isPayload(received[trace[i + 1].rec])

\* C10 as stated: a stop command that fails with a diagnostic containing
\* "permission denied" is never swallowed: no restore command follows and the
\* payload record gets the error.
C10_PermissionDeniedReported ==
    \A i \in 1..Len(trace) :
        (/\ IsStop(trace[i]) /\ trace[i].out.failed
         /\ Contains(Diagnostic(trace[i].out), S_permissionDenied)) =>
            StopReported(i)

\* C10 as amended: it is not swallowed when the diagnostic contains none of
\* the ignorable phrases.
C10_PermissionDeniedAloneReported ==
    \A i \in 1..Len(trace) :
        (/\ IsStop(trace[i]) /\ trace[i].out.failed
         /\ Contains(Diagnostic(trace[i].out), S_permissionDenied)
         /\ ~InIgnorableFamily(Diagnostic(trace[i].out))) =>
            StopReported(i)

\* A stop command failed with "permission denied" and the payload record got
\* the error.
C10_Witness ==
    \E i \in 1..Len(trace) :
        /\ IsStop(trace[i]) /\ trace[i].out.failed
        /\ Diagnostic(trace[i].out) = S_permissionDenied
        /\ StopReported(i)

-----------------------------------------------------------------------------
(* C11 *)

\* C11: with cleanup, when Export has returned, every path on which Create
\* succeeded (the file was written fully or partly) has had Remove called on
\* it afterwards; without cleanup Remove is never called.
C11_CleanupRemovesStagedFiles ==
    /\ ~cfg.Cleanup => \A i \in 1..Len(trace) : trace[i].op # "Remove"
    /\ (cfg.Cleanup /\ pc = "done") =>
           \A i \in 1..Len(trace) :
               (trace[i].op = "Create" /\ trace[i].err = NoErr) =>
                   \E j \in (i + 1)..Len(trace) :
                       trace[j].op = "Remove" /\ trace[j].path = trace[i].path

-----------------------------------------------------------------------------
(* The backup capture: Client.BackupVMStream, readStreamHeader,
   detectCompressionSuffix and streamReadCloser.  Bytes are numbers 0..255. *)

\* The number of bytes BackupVMStream peeks.
StreamHeaderSize == 16

gzipMagic == <<31, 139>>
zstdMagic == <<40, 181, 47, 253>>
lzoMagic == <<137, 76, 90, 79, 0, 13, 10, 26, 10>>
S_gz == <<".","g","z">>
S_zst == <<".","z","s","t">>
S_lzo == <<".","l","z","o">>
S_vma == <<"v","m","a">>
S_tar == <<"t","a","r">>

\* io.EOF
EOF == Err("EOF", <<>>)
\* The error of a read on a pipe that Wait has closed.
ErrClosed == Err("file already closed", <<>>)

Min(a, b) == IF a < b THEN a ELSE b

\* detectCompressionSuffix comparing only the first 8 bytes of the lzo magic.
detectCompressionSuffix_LzoEightBytes(header) ==
    IF Len(header) >= 2 /\ header[1] = 31 /\ header[2] = 139 THEN S_gz
    ELSE IF Len(header) >= 4 /\ header[1] = 40 /\ header[2] = 181
            /\ header[3] = 47 /\ header[4] = 253 THEN S_zst
    ELSE IF Len(header) >= 8 /\ HasPrefix(header, SubSeq(lzoMagic, 1, 8)) THEN S_lzo
    ELSE <<>>

detectCompressionSuffix(header) ==
    IF Len(header) >= 2 /\ header[1] = 31 /\ header[2] = 139 THEN S_gz
    ELSE IF Len(header) >= 4 /\ header[1] = 40 /\ header[2] = 181
            /\ header[3] = 47 /\ header[4] = 253 THEN S_zst
    ELSE IF Len(header) >= Len(lzoMagic) /\ HasPrefix(header, lzoMagic) THEN S_lzo
    ELSE <<>>

\* readStreamHeader treating a stream that ends inside the header as an error.
readStreamHeader_FailOnShort(out, size, fault) ==
    IF size <= 0 THEN [header |-> <<>>, err |-> NoErr]
    ELSE IF fault \/ Len(out) < size
    THEN [header |-> <<>>, err |-> Err("unexpected EOF", <<>>)]
    ELSE [header |-> SubSeq(out, 1, size), err |-> NoErr]

\* out is what the command writes to its standard output in all; fault tells
\* that the pipe fails with an error other than end-of-stream.  io.ReadFull
\* reads until size bytes are there or the stream ends.  (header, err)
readStreamHeader(out, size, fault) ==
    IF size <= 0 THEN [header |-> <<>>, err |-> NoErr]
    ELSE IF fault THEN [header |-> <<>>, err |-> Err("read failed", <<>>)]
    ELSE [header |-> SubSeq(out, 1, Min(size, Len(out))), err |-> NoErr]

\* (ext, err)
dumpBaseExtension(vmType) ==
    IF vmType = S_qemu THEN [ext |-> S_vma, err |-> NoErr]
    ELSE IF vmType = S_lxc THEN [ext |-> S_tar, err |-> NoErr]
    ELSE [ext |-> <<>>, err |-> Err("unsupported VM type", vmType)]

\* BuildDumpFilename returning the path of a dump file in the dump directory.
BuildDumpFilename_InDumpDir(vmType, vmid, timestamp, baseExt, compressionSuffix) ==
    DefaultDumpDir \o <<"/">> \o S_vzdump \o <<"-">> \o vmType \o <<"-">> \o Itoa(vmid)
    \o <<"-">> \o timestamp \o <<".">> \o baseExt \o compressionSuffix

\* BuildDumpFilename writing the tag of a later version of the naming scheme.
BuildDumpFilename_NextVersion(vmType, vmid, timestamp, baseExt, compressionSuffix) ==
    S_vzdump \o <<"-","v">> \o Itoa(DumpFilenameVersion + 1) \o <<"-">> \o vmType
    \o <<"-">> \o Itoa(vmid) \o <<"-">> \o timestamp \o <<".">> \o baseExt
    \o compressionSuffix

BuildDumpFilename(vmType, vmid, timestamp, baseExt, compressionSuffix) ==
    S_vzdump \o <<"-">> \o vmType \o <<"-">> \o Itoa(vmid) \o <<"-">> \o timestamp
    \o <<".">> \o baseExt \o compressionSuffix

\* io.MultiReader reading from the stream only: the peeked header is lost.
multiReader_StreamOnly(header) == [headerOff |-> Len(header), off |-> Len(header)]

\* io.MultiReader(bytes.NewReader(header), stream.Stdout): the reader starts at
\* the first byte of the header, and the stream behind it where the peek ended.
multiReader(header) == [headerOff |-> 0, off |-> Len(header)]

\* The capture before BackupVMStream is called.
NewCapture ==
    [pc |-> "start", archivePath |-> <<>>, err |-> NoErr,
     header |-> <<>>, headerOff |-> 0, off |-> 0, compressionSuffix |-> <<>>,
     closed |-> FALSE, finished |-> FALSE, finishErr |-> NoErr,
     finishCalls |-> 0, aborted |-> FALSE, stderrBuf |-> <<>>,
     got |-> <<>>, eos |-> <<>>, closes |-> <<>>, faults |-> 0]

\* BackupVMStream failing before the command is started.
failedEarly(err) == [capture EXCEPT !.pc = "failed", !.err = err]

\* BackupVMStream failing on the header: Abort, Finish, <-doneCh; collected is
\* what the stderr goroutine has copied when it ends.
failedOnHeader(msg, collected) ==
    [capture EXCEPT !.pc = "failed", !.aborted = TRUE, !.finishCalls = @ + 1,
                    !.stderrBuf = collected, !.err = Err(msg, TrimSpace(collected))]

\* Client.BackupVMStream: the capture after the call.
backupVMStream(collected) ==
    LET baseExt == dumpBaseExtension(proc.vmType)
        peeked == readStreamHeader(proc.stdout, StreamHeaderSize, proc.readFault)
        header == peeked.header
        compressionSuffix == detectCompressionSuffix(header)
        stdout == multiReader(header)
    IN  IF proc.vmTypeErr
        THEN failedEarly(Err("unable to determine VM type for vmid", Itoa(proc.vmid)))
        ELSE IF baseExt.err # NoErr THEN failedEarly(baseExt.err)
        ELSE IF proc.startErr THEN failedEarly(Err("vzdump stream failed", <<>>))
        ELSE IF peeked.err # NoErr
        THEN failedOnHeader("unable to read vzdump stream header", collected)
        ELSE IF Len(header) = 0
        THEN failedOnHeader("empty vzdump stream header", collected)
        ELSE [capture EXCEPT
                !.pc = "open", !.header = header,
                !.headerOff = stdout.headerOff, !.off = stdout.off,
                !.compressionSuffix = compressionSuffix,
                !.archivePath = BuildDumpFilename(proc.vmType, proc.vmid, proc.timestamp,
                                                  baseExt.ext, compressionSuffix)]

\* streamReadCloser.finalize calling finish on every call.
finalize_NoGuard(r, collected) ==
    [r EXCEPT !.finished = TRUE, !.finishCalls = @ + 1, !.stderrBuf = collected,
              !.finishErr = IF proc.exitErr
                            THEN Err("vzdump failed", TrimSpace(collected)) ELSE NoErr]

\* streamReadCloser.finalize: the reader after the call; its return value is
\* the finishErr field.  collected is what the stderr goroutine has copied
\* when it ends.
finalize(r, collected) ==
    IF r.finished THEN r
    ELSE [r EXCEPT !.finished = TRUE, !.finishCalls = @ + 1, !.stderrBuf = collected,
                   !.finishErr = IF proc.exitErr
                                 THEN Err("vzdump failed", TrimSpace(collected))
                                 ELSE NoErr]

\* Read at end-of-stream returning the clean end-of-stream whatever finalize says.
readAtEOF_CleanEOF(finishErr) == EOF

\* The error Read returns when the underlying read returned io.EOF.
readAtEOF(finishErr) == IF finishErr # NoErr THEN finishErr ELSE EOF

\* streamReadCloser.Read when the underlying reader is at end-of-stream: the
\* reader after the call, the error returned appended to eos.
streamReadEOF(r, collected) ==
    LET f == finalize(r, collected)
    IN  [f EXCEPT !.eos = Append(@, readAtEOF(f.finishErr))]

\* streamReadCloser.Close: the reader after the call, the error returned
\* appended to closes.
streamClose(r, collected) ==
    IF r.closed THEN [r EXCEPT !.closes = Append(@, NoErr)]
    ELSE LET f == finalize([r EXCEPT !.closed = TRUE], collected)
         IN  [f EXCEPT !.closes = Append(@, f.finishErr)]

-----------------------------------------------------------------------------
(* internal/proxmox/runner.go: the remote read and write handles *)

\* sshReadCloser.Close: the handle after the call.
sshReadClose(h) ==
    IF h.closed THEN [h EXCEPT !.closes = Append(@, NoErr)]
    ELSE [h EXCEPT !.closed = TRUE, !.waits = @ + 1, !.sessionCloses = @ + 1,
                   !.closes = Append(@, IF h.waitErr
                                        THEN Err("remote read failed", TrimSpace(h.stderr))
                                        ELSE NoErr)]

\* sshWriteCloser.Close: the handle after the call.
sshWriteClose(h) ==
    IF h.closed THEN [h EXCEPT !.closes = Append(@, NoErr)]
    ELSE [h EXCEPT !.closed = TRUE, !.stdinCloses = @ + 1, !.waits = @ + 1,
                   !.sessionCloses = @ + 1,
                   !.closes = Append(@, IF h.closeErr THEN Err("stdin close failed", <<>>)
                                        ELSE IF h.waitErr
                                        THEN Err("remote write failed", TrimSpace(h.stderr))
                                        ELSE NoErr)]

-----------------------------------------------------------------------------
(* The captures and handles of the model *)

\* The Read and Close calls made on a handle once it is at end-of-stream.
MaxCalls == 3

\* The lengths of the buffers handed to Read.
ReadSizes == {7, 32}

Magics == {gzipMagic, zstdMagic, lzoMagic}
Prefixes(s) == {SubSeq(s, 1, n) : n \in 0..Len(s)}

\* p followed by bytes that differ from one position to the next, n bytes in all.
Pad(p, n) == p \o [i \in 1..(n - Len(p)) |-> 200 + i]

\* What the backup command writes to its standard output: every prefix of
\* every magic, alone, followed by another byte, and followed by more bytes
\* than the header holds; and streams of exactly the header's size.
Outputs ==
    UNION { { p, p \o <<1>>, Pad(p, StreamHeaderSize + 2) } :
              p \in UNION { Prefixes(m) : m \in Magics } }
    \cup { Pad(m, StreamHeaderSize) : m \in Magics }
    \cup { Pad(<<>>, StreamHeaderSize - 1) }

S_timestamp ==
    <<"2","0","2","6","_","0","1","_","0","2","-","0","3","_","0","4","_","0","5">>

Proc(vmType, stdout, stderr, exitErr) ==
    [vmid |-> 101, vmType |-> vmType, vmTypeErr |-> FALSE, startErr |-> FALSE,
     readFault |-> FALSE, stdout |-> stdout, stderr |-> stderr, exitErr |-> exitErr,
     timestamp |-> S_timestamp]

ProcStderrs == { <<>>, <<" ","e","\n">> }

\* The environments of a capture: the kind c.VMType answers, whether the
\* command starts, what it writes and how it exits.
Procs ==
    { Proc(S_qemu, out, e, x) : out \in Outputs, e \in ProcStderrs, x \in BOOLEAN }
    \cup { Proc(S_lxc, out, <<" ","e","\n">>, x) :
             out \in {gzipMagic, Pad(zstdMagic, StreamHeaderSize + 2)}, x \in BOOLEAN }
    \cup { [Proc(S_qemu, gzipMagic, <<>>, FALSE) EXCEPT !.vmTypeErr = TRUE],
           [Proc(S_qemu, gzipMagic, <<>>, FALSE) EXCEPT !.startErr = TRUE],
           [Proc(S_qemu, gzipMagic, <<" ","e","\n">>, TRUE) EXCEPT !.readFault = TRUE] }

NoCapture == [NewCapture EXCEPT !.pc = "none"]

Handle(kind, waitErr, closeErr, stderr) ==
    [kind |-> kind, closed |-> FALSE, waits |-> 0, stdinCloses |-> 0,
     sessionCloses |-> 0, closes |-> <<>>, waitErr |-> waitErr, closeErr |-> closeErr,
     stderr |-> stderr]
NoHandle == Handle("none", FALSE, FALSE, <<>>)
Handles ==
    { Handle("read", w, FALSE, e) : w \in BOOLEAN, e \in ProcStderrs }
    \cup { Handle("write", w, c, e) : w \in BOOLEAN, c \in BOOLEAN, e \in ProcStderrs }

\* The calls made on the reader after the data: reads at end-of-stream, reads
\* on a closed pipe and Close calls.
CallsAtEnd(r) == Len(r.eos) + Len(r.closes) + r.faults

StreamInit ==
    /\ \/ proc \in Procs /\ capture = NewCapture /\ remote = NoHandle
       \/ /\ proc = Proc(S_qemu, gzipMagic, <<>>, FALSE)
          /\ capture = NoCapture /\ remote \in Handles
    /\ ExportIdle /\ RunnerIdle /\ CacheIdle /\ CodecIdle /\ ImportIdle
    /\ CancelIdle /\ LiveIdle /\ ShellIdle

BackupVMStream ==
    /\ capture.pc = "start"
    /\ \E collected \in Prefixes(proc.stderr) : capture' = backupVMStream(collected)
    /\ UNCHANGED <<proc, remote, exportVars, runnerVars, cacheVars, codecVars, importVars, cancelVars, liveVars, shellVars>>

\* A Read on the reader BackupVMStream returned, with a buffer of k bytes.
CaptureRead ==
    /\ capture.pc = "open"
    /\ \E k \in ReadSizes :
        LET hrem == Len(capture.header) - capture.headerOff
            rem == Len(proc.stdout) - capture.off
            n == Min(k, hrem)
        IN  IF hrem > 0
            THEN capture' =
                   [capture EXCEPT
                      !.headerOff = @ + n,
                      !.got = @ \o SubSeq(capture.header, capture.headerOff + 1,
                                          capture.headerOff + n)]
            ELSE \/ /\ rem > 0
                    /\ \E m \in {1, Min(k, rem)} :
                        capture' =
                          [capture EXCEPT
                             !.off = @ + m,
                             !.got = @ \o SubSeq(proc.stdout, capture.off + 1,
                                                 capture.off + m)]
                 \/ /\ rem = 0 /\ CallsAtEnd(capture) < MaxCalls
                    /\ \E collected \in Prefixes(proc.stderr) :
                        capture' = streamReadEOF(capture, collected)
                 \/ \* finish has run: the pipe may be closed under the reader
                    /\ capture.finished /\ CallsAtEnd(capture) < MaxCalls
                    /\ capture' = [capture EXCEPT !.faults = @ + 1]
    /\ UNCHANGED <<proc, remote, exportVars, runnerVars, cacheVars, codecVars, importVars, cancelVars, liveVars, shellVars>>

CaptureClose ==
    /\ capture.pc = "open" /\ CallsAtEnd(capture) < MaxCalls
    /\ \E collected \in Prefixes(proc.stderr) :
        capture' = streamClose(capture, collected)
    /\ UNCHANGED <<proc, remote, exportVars, runnerVars, cacheVars, codecVars, importVars, cancelVars, liveVars, shellVars>>

SSHReadClose ==
    /\ remote.kind = "read" /\ Len(remote.closes) < MaxCalls
    /\ remote' = sshReadClose(remote)
    /\ UNCHANGED <<proc, capture, exportVars, runnerVars, cacheVars, codecVars, importVars, cancelVars, liveVars, shellVars>>

SSHWriteClose ==
    /\ remote.kind = "write" /\ Len(remote.closes) < MaxCalls
    /\ remote' = sshWriteClose(remote)
    /\ UNCHANGED <<proc, capture, exportVars, runnerVars, cacheVars, codecVars, importVars, cancelVars, liveVars, shellVars>>

StreamNext ==
    BackupVMStream \/ CaptureRead \/ CaptureClose \/ SSHReadClose \/ SSHWriteClose

StreamSpec == StreamInit /\ [][StreamNext]_vars

-----------------------------------------------------------------------------
(* C12 .. C16 *)

IsPrefixOf(p, q) == Len(p) <= Len(q) /\ p = SubSeq(q, 1, Len(p))

\* The command was started and its output was read without a pipe error.
Captured == ~proc.vmTypeErr /\ ~proc.startErr /\ ~proc.readFault

\* C12: for every non-empty output of the backup command, shorter than the
\* header or not, BackupVMStream returns a reader; at every moment the bytes
\* read from it are the first bytes of the command's output, in order, and
\* once a Read has reported the end of the stream they are the whole output.
C12_StreamIsCommandOutput ==
    /\ (capture.pc = "failed" /\ Captured) => proc.stdout = <<>>
    /\ capture.pc = "open" =>
        /\ IsPrefixOf(capture.header, proc.stdout)
        /\ IsPrefixOf(capture.got, proc.stdout)
        /\ capture.eos # <<>> => capture.got = proc.stdout

\* An output longer than the header was read to the end, the header in
\* several reads.
C12_Witness ==
    /\ capture.pc = "open"
    /\ Len(proc.stdout) > StreamHeaderSize
    /\ capture.eos # <<>>
    /\ capture.got = proc.stdout

\* The suffix the specification gives for a header.
ExpectedSuffix(header) ==
    IF IsPrefixOf(gzipMagic, header) THEN S_gz
    ELSE IF IsPrefixOf(zstdMagic, header) THEN S_zst
    ELSE IF IsPrefixOf(lzoMagic, header) THEN S_lzo
    ELSE <<>>

\* C13: for every header of 0 to 16 bytes detectCompressionSuffix returns
\* .gz, .zst or .lzo when the header starts with the magic of that format and
\* the empty suffix otherwise; the suffix of a capture is the one of the first
\* 16 bytes of the command's output and ends the archive name.
C13_SuffixFollowsMagic ==
    /\ \A out \in Outputs :
        LET header == SubSeq(out, 1, Min(StreamHeaderSize, Len(out)))
        IN  detectCompressionSuffix(header) = ExpectedSuffix(header)
    /\ capture.pc = "open" =>
        /\ capture.compressionSuffix =
             ExpectedSuffix(SubSeq(proc.stdout, 1, Min(StreamHeaderSize, Len(proc.stdout))))
        /\ HasSuffix(capture.archivePath,
                     dumpBaseExtension(proc.vmType).ext \o capture.compressionSuffix)

\* A capture whose output starts with the 9 bytes of the lzo magic and is
\* longer than the header got the suffix .lzo.
C13_Witness ==
    /\ capture.pc = "open"
    /\ Len(proc.stdout) > StreamHeaderSize
    /\ IsPrefixOf(lzoMagic, proc.stdout)
    /\ capture.compressionSuffix = S_lzo

\* C14 as stated: when the output ends before 16 bytes were collected,
\* BackupVMStream fails with the diagnostic text collected so far and returns
\* no reader and no archive name.
C14_ShortHeaderFails ==
    (capture.pc \notin {"none", "start"} /\ Captured
       /\ Len(proc.stdout) < StreamHeaderSize) =>
        /\ capture.pc = "failed"
        /\ capture.err.detail = TrimSpace(capture.stderrBuf)
        /\ capture.archivePath = <<>>

\* C14 as amended: BackupVMStream fails at once, with the diagnostic text
\* collected so far and without a reader or an archive name, when the output
\* ends before any byte was collected; an output that ends inside the header
\* after at least one byte is captured as it is.
C14_EmptyHeaderFails ==
    (capture.pc \notin {"none", "start"} /\ Captured) =>
        /\ proc.stdout = <<>> =>
            /\ capture.pc = "failed"
            /\ capture.err = Err("empty vzdump stream header", TrimSpace(capture.stderrBuf))
            /\ IsPrefixOf(capture.stderrBuf, proc.stderr)
            /\ capture.archivePath = <<>>
            /\ capture.aborted /\ capture.finishCalls = 1
        /\ (proc.stdout # <<>> /\ Len(proc.stdout) < StreamHeaderSize) =>
            /\ capture.pc = "open"
            /\ capture.header = proc.stdout

\* The command wrote nothing to its output and " e" to its standard error:
\* BackupVMStream failed with the text e.
C14_Witness ==
    /\ capture.pc = "failed" /\ Captured
    /\ proc.stdout = <<>>
    /\ capture.err = Err("empty vzdump stream header", <<"e">>)

\* C15: finish is called at most once on a capture however many reads at
\* end-of-stream and Close calls are made, and every Read at end-of-stream
\* returns the same error; a remote read or write handle waits on its session
\* at most once and every Close after the first returns nil.
C15_FinalizedOnce ==
    /\ capture.finishCalls <= 1
    /\ \A i, j \in 1..Len(capture.eos) : capture.eos[i] = capture.eos[j]
    /\ \A i \in 2..Len(capture.closes) : capture.closes[i] = NoErr
    /\ remote.waits <= 1
    /\ \A i \in 2..Len(remote.closes) : remote.closes[i] = NoErr

\* Two reads at end-of-stream and a Close were made on a capture of a failed
\* command.
C15_Witness ==
    /\ capture.pc = "open" /\ proc.exitErr
    /\ Len(capture.eos) >= 2 /\ Len(capture.closes) >= 1
    /\ capture.finishCalls = 1

\* C16: a Read that reaches the end of the stream returns the error "vzdump
\* failed" with the trimmed diagnostic text when the command exited with a
\* failure, and the clean end-of-stream when it exited successfully.
C16_FailedBackupNeverCleanEOF ==
    capture.pc = "open" =>
        /\ IsPrefixOf(capture.stderrBuf, proc.stderr)
        /\ \A i \in 1..Len(capture.eos) :
            capture.eos[i] = IF proc.exitErr
                             THEN Err("vzdump failed", TrimSpace(capture.stderrBuf))
                             ELSE EOF

\* The command failed after writing " e" to its standard error and the Read
\* at the end of the stream returned "vzdump failed" with the text e.
C16_Witness ==
    /\ capture.pc = "open" /\ proc.exitErr
    /\ capture.got = proc.stdout
    /\ capture.eos # <<>>
    /\ capture.eos[1] = Err("vzdump failed", <<"e">>)

-----------------------------------------------------------------------------
(* Runner.Run: the local and the remote executor
   (src/internal/proxmox/runner.go).

   command is the behaviour of the command that is run: what the child
   process writes to its standard output and standard error before it exits,
   whether it exits with a failure, and whether the SSH transport refuses a
   new session.  results holds what each executor returned for it. *)

\* The values an executor has not returned yet.
NotCalled == [returned |-> FALSE, stdout |-> <<>>, stderr |-> <<>>, failed |-> FALSE]

\* LocalRunner.Run.  The operands of the return statement are evaluated from
\* left to right: stdout.String() and stderr.String() are taken from the two
\* buffers before cmd.Run() starts the process, when both are still empty.
LocalRunner_Run(c) ==
    [returned |-> TRUE, stdout |-> <<>>, stderr |-> <<>>, failed |-> c.exitFails]

\* SSHRunner.Run: session.Run has returned when the buffers are read.
SSHRunner_Run(c) ==
    IF c.sessionFails
    THEN [returned |-> TRUE, stdout |-> <<>>, stderr |-> <<>>, failed |-> TRUE]
    ELSE [returned |-> TRUE, stdout |-> c.stdout, stderr |-> c.stderr,
          failed |-> c.exitFails]

\* Client.runPvesh on what Runner.Run returned: (out, err)
runPvesh(errPrefix, run) ==
    IF run.failed
    THEN [out |-> <<>>, err |-> Err(errPrefix, TrimSpace(run.stderr))]
    ELSE [out |-> run.stdout, err |-> NoErr]

S_inventory == <<"[","{","\"","v","m","i","d","\"",":","1","0","0","}","]">>

\* Behaviours of the command that is run.
Commands ==
    { [stdout |-> o, stderr |-> e, exitFails |-> x, sessionFails |-> n] :
        o \in { <<>>, S_alreadyStopped, S_inventory },
        e \in { <<>>, S_permissionDenied, <<" ","b","a","d","\n">>,
                <<"V","M"," ","1","0","0"," ">> \o S_notRunning },
        x \in BOOLEAN, n \in BOOLEAN }

RunnerInit ==
    /\ command \in Commands
    /\ results = [local |-> NotCalled, ssh |-> NotCalled]
    /\ ExportIdle /\ StreamIdle /\ CacheIdle /\ CodecIdle /\ ImportIdle
    /\ CancelIdle /\ LiveIdle /\ ShellIdle

\* The caller is configured in local mode.
LocalRun ==
    /\ ~results.local.returned
    /\ results' = [results EXCEPT !.local = LocalRunner_Run(command)]
    /\ UNCHANGED <<command, exportVars, streamVars, cacheVars, codecVars, importVars, cancelVars, liveVars, shellVars>>

\* The caller is configured in remote mode.
SSHRun ==
    /\ ~results.ssh.returned
    /\ results' = [results EXCEPT !.ssh = SSHRunner_Run(command)]
    /\ UNCHANGED <<command, exportVars, streamVars, cacheVars, codecVars, importVars, cancelVars, liveVars, shellVars>>

RunnerNext == LocalRun \/ SSHRun

RunnerSpec == RunnerInit /\ [][RunnerNext]_vars

\* C17: LocalRunner.Run returns the exit status together with everything the
\* child process wrote to its standard output and to its standard error.
C17_LocalRunReturnsOutput ==
    results.local.returned =>
        /\ results.local.stdout = command.stdout
        /\ results.local.stderr = command.stderr
        /\ results.local.failed = command.exitFails

\* C18: for one command behaviour (and a session that could be opened) the
\* two executors return the same triple, and stopVM and the inventory query
\* reach the same outcome and error text on either.
C18_ExecutorsInterchangeable ==
    (/\ results.local.returned /\ results.ssh.returned
     /\ ~command.sessionFails) =>
        /\ results.local = results.ssh
        /\ stopVM(S_qemu, 100, results.local).err
               = stopVM(S_qemu, 100, results.ssh).err
        /\ runPvesh("list resources failed", results.local)
               = runPvesh("list resources failed", results.ssh)

-----------------------------------------------------------------------------
(* The resource inventory and its cache (src/internal/proxmox/resources.go).

   now is the clock, in seconds since the client was created.  cluster is
   the inventory that pvesh would print if it ran now.  resourceCache and
   resourceCacheAt are the fields of the client; beside the resources the
   model remembers when they were read from the cluster (obtainedAt).
   calls holds, for each goroutine using the client, the call it is making:
   its position, the resources it holds and what it has done. *)

resourceCacheTTL == 15

\* time.Time{}, the value of resourceCacheAt before the first store.
zeroTime == 0 - (resourceCacheTTL + 1)

\* The clock is observed every TickSeconds seconds, up to MaxTime.
TickSeconds == 5
MaxTime == 20
MaxInventoryCalls == 2

Callers == {"g1", "g2"}

vmResource(vmid, type) == [VMID |-> vmid, Type |-> type]

\* What pvesh get /cluster/resources may print, decoded.
Inventories == { <<>>, <<vmResource(100, S_qemu)>> }

NoResources == [resources |-> <<>>, obtainedAt |-> zeroTime]

NoCall ==
    [pc |-> "idle", op |-> "none", n |-> 0, calledAt |-> 0, fresh |-> FALSE,
     held |-> NoResources, fromCache |-> FALSE, ranCommand |-> FALSE,
     failed |-> FALSE]

\* cachedResources: (ok, cached)
cachedResources ==
    IF Len(resourceCache.resources) = 0 THEN [ok |-> FALSE, cached |-> NoResources]
    ELSE IF now - resourceCacheAt > resourceCacheTTL
    THEN [ok |-> FALSE, cached |-> NoResources]
    ELSE [ok |-> TRUE, cached |-> resourceCache]

\* A goroutine calls ListAllVMIDs or VMType: listResources up to the return of
\* cachedResources, and the whole call when the cache answers.
ListResources(g) ==
    /\ calls[g].pc \in {"idle", "done"}
    /\ calls[g].n < MaxInventoryCalls
    /\ \E op \in {"ListAllVMIDs", "VMType"} :
        LET hit == cachedResources
            call == [NoCall EXCEPT !.op = op, !.n = calls[g].n + 1,
                                   !.calledAt = now,
                                   !.fresh = (now - resourceCacheAt <= resourceCacheTTL)]
        IN  calls' = [calls EXCEPT ![g] =
                IF hit.ok
                THEN [call EXCEPT !.pc = "done", !.held = hit.cached,
                                  !.fromCache = TRUE]
                ELSE [call EXCEPT !.pc = "pvesh"]]
    /\ UNCHANGED <<now, cluster, resourceCache, resourceCacheAt>>
    /\ UNCHANGED <<exportVars, streamVars, runnerVars, codecVars, importVars, cancelVars, liveVars, shellVars>>

\* A goroutine calls ListPoolVMIDs: the cache is not consulted.
ListPoolVMIDs(g) ==
    /\ calls[g].pc \in {"idle", "done"}
    /\ calls[g].n < MaxInventoryCalls
    /\ calls' = [calls EXCEPT ![g] =
            [NoCall EXCEPT !.op = "ListPoolVMIDs", !.n = calls[g].n + 1,
                           !.calledAt = now, !.pc = "pvesh",
                           !.fresh = (now - resourceCacheAt <= resourceCacheTTL)]]
    /\ UNCHANGED <<now, cluster, resourceCache, resourceCacheAt>>
    /\ UNCHANGED <<exportVars, streamVars, runnerVars, codecVars, importVars, cancelVars, liveVars, shellVars>>

\* runPvesh and json.Unmarshal: the command reads the cluster now, or fails.
\* ListPoolVMIDs returns here; listResources goes on to setResourceCache.
RunPvesh(g) ==
    /\ calls[g].pc = "pvesh"
    /\ \E ok \in BOOLEAN :
        LET call == calls[g]
        IN  calls' = [calls EXCEPT ![g] =
                IF ~ok
                THEN [call EXCEPT !.pc = "done", !.ranCommand = TRUE,
                                  !.failed = TRUE]
                ELSE [call EXCEPT
                        !.pc = IF call.op = "ListPoolVMIDs" THEN "done" ELSE "store",
                        !.ranCommand = TRUE,
                        !.held = [resources |-> cluster, obtainedAt |-> now]]]
    /\ UNCHANGED <<now, cluster, resourceCache, resourceCacheAt>>
    /\ UNCHANGED <<exportVars, streamVars, runnerVars, codecVars, importVars, cancelVars, liveVars, shellVars>>

\* setResourceCache and the return of listResources.
SetResourceCache(g) ==
    /\ calls[g].pc = "store"
    /\ resourceCache' = calls[g].held
    /\ resourceCacheAt' = now
    /\ calls' = [calls EXCEPT ![g].pc = "done"]
    /\ UNCHANGED <<now, cluster>>
    /\ UNCHANGED <<exportVars, streamVars, runnerVars, codecVars, importVars, cancelVars, liveVars, shellVars>>

\* Time passes.
Tick ==
    /\ now + TickSeconds <= MaxTime
    /\ now' = now + TickSeconds
    /\ UNCHANGED <<cluster, resourceCache, resourceCacheAt, calls>>
    /\ UNCHANGED <<exportVars, streamVars, runnerVars, codecVars, importVars, cancelVars, liveVars, shellVars>>

CacheInit ==
    /\ now = 0
    /\ cluster \in Inventories
    /\ resourceCache = NoResources
    /\ resourceCacheAt = zeroTime
    /\ calls = [g \in Callers |-> NoCall]
    /\ ExportIdle /\ StreamIdle /\ RunnerIdle /\ CodecIdle /\ ImportIdle
    /\ CancelIdle /\ LiveIdle /\ ShellIdle

CacheNext ==
    \/ \E g \in Callers : ListResources(g)
    \/ \E g \in Callers : ListPoolVMIDs(g)
    \/ \E g \in Callers : RunPvesh(g)
    \/ \E g \in Callers : SetResourceCache(g)
    \/ Tick

CacheSpec == CacheInit /\ [][CacheNext]_vars

\* C19: an inventory served from the cache was read from the cluster at most
\* resourceCacheTTL seconds before it is served, and a store never replaces
\* the cached inventory with one read from the cluster earlier.
C19_CacheNeverServesStale ==
    /\ [](\A g \in Callers :
            calls[g].fromCache =>
                calls[g].calledAt - calls[g].held.obtainedAt <= resourceCacheTTL)
    /\ [][resourceCache'.obtainedAt >= resourceCache.obtainedAt]_vars

\* C20: a call made within resourceCacheTTL seconds after a successful
\* inventory fetch is answered from the cache and runs no command.
C20_FreshCallsRunNoCommand ==
    \A g \in Callers :
        calls[g].fresh => calls[g].pc = "done" /\ calls[g].fromCache /\ ~calls[g].ranCommand

-----------------------------------------------------------------------------
(* The filename codecs (internal/proxmox/dumpname.go, metadata.go) applied to
   names: codec holds the call that produced the name in hand (op and its
   arguments), the name, and what ParseDumpFilename and ParseMetadataFilename
   returned for it. *)

NotParsed == [done |-> FALSE, vmType |-> <<>>, vmid |-> 0, err |-> NoErr]
NotParsedMeta == [done |-> FALSE, archiveName |-> <<>>, ok |-> FALSE]

NoName ==
    [op |-> "none", vmType |-> <<>>, vmid |-> 0, archiveName |-> <<>>,
     name |-> <<>>, dump |-> NotParsed, meta |-> NotParsedMeta]

\* Machine ids handed to the builders.
CodecVMIDs == {0, 7, 101}

\* A decimal number no int holds.
S_tooLarge == <<"9","9","9","9","9","9","9","9","9","9",
                "9","9","9","9","9","9","9","9","9","9">>

\* Names of snapshot entries handed to ParseDumpFilename.
DumpNames ==
    { <<"v","z","d","u","m","p","-","q","e","m","u","-","1","0","0","-","a">>,
      <<"v","z","d","u","m","p","-","v","1","-","l","x","c","-","7","-","a">>,
      <<"v","z","d","u","m","p","-","v","0","1","-","q","e","m","u","-","1","0","0","-","a">>,
      <<"v","z","d","u","m","p","-","v","2","-","q","e","m","u","-","1","0","0","-","a">>,
      <<"v","z","d","u","m","p","-","v","0","-","l","x","c","-","7","-","a">>,
      <<"v","z","d","u","m","p","-","v">> \o S_tooLarge \o <<"-","q","e","m","u","-","1","-","a">>,
      <<"v","z","d","u","m","p","-","q","e","m","u","-">> \o S_tooLarge \o <<"-","a">>,
      <<"v","z","d","u","m","p","-","v","1","-","q","e","m","u","-">> \o S_tooLarge \o <<"-","a">>,
      <<"v","z","d","u","m","p","-","v","2","-","q","e","m","u","-">> \o S_tooLarge \o <<"-","a">>,
      <<"v","z","d","u","m","p","-","q","e","m","u","-","1","0","0">>,
      <<"v","z","d","u","m","p","-","k","v","m","-","1","0","0","-","a">>,
      <<"v","z","d","u","m","p","-","v","-","q","e","m","u","-","1","-","a">>,
      <<"x","v","z","d","u","m","p","-","q","e","m","u","-","1","-","a">>,
      <<"d","/","v","z","d","u","m","p","-","q","e","m","u","-","5","-","a">>,
      <<"v","z","d","u","m","p","-","q","e","m","u","-","5","-","a","/">>,
      <<>>,
      <<"v","z","d","u","m","p","-","q","e","m","u","-","-","5","-","a">>,
      <<"v","z","d","u","m","p","-","v","2","-","k","v","m","-","1","-","a">>,
      <<"v","z","d","u","m","p","-","v","1","x","-","q","e","m","u","-","1","-","a">>,
      <<"v","z","d","u","m","p","-","v","2","-","q","e","m","u","-","1">>,
      <<"v","z","d","u","m","p","-","q","e","m","u","-","0","0","1","2","-">>,
      <<"v","z","d","u","m","p","-","Q","E","M","U","-","1","-","a">>,
      <<"v","z","d","u","m","p","-","v","1","-","v","2","-","q","e","m","u","-","1","-","a">> }

\* Names handed to ParseMetadataFilename.
SidecarNames ==
    { <<".","p","l","a","k","a","r","-","m","e","t","a","-",".","j","s","o","n">>,
      <<".","p","l","a","k","a","r","-","m","e","t","a","-","a",".","j","s","o","n">>,
      <<".","p","l","a","k","a","r","-","m","e","t","a","-","a">>,
      <<"a",".","j","s","o","n">>,
      <<".","j","s","o","n">>,
      <<".","p","l","a","k","a","r","-","m","e","t","a","-">>,
      <<>>,
      <<"x",".","p","l","a","k","a","r","-","m","e","t","a","-","a",".","j","s","o","n">>,
      <<".","p","l","a","k","a","r","-","m","e","t","a","-","a",".","j","s","o","n","x">>,
      <<".","P","L","A","K","A","R","-","M","E","T","A","-","a",".","j","s","o","n">> }

\* Archive names handed to MetadataFilename.
CodecArchiveNames ==
    { <<"a">>,
      <<".","j","s","o","n">>,
      <<".","p","l","a","k","a","r","-","m","e","t","a","-">>,
      <<".","p","l","a","k","a","r","-","m","e","t","a","-","x",".","j","s","o","n">>,
      <<"v","z","d","u","m","p","-","q","e","m","u","-","1","0","1","-","t",".","v","m","a",".","z","s","t">>,
      <<"a",".","j","s","o","n",".","j","s","o","n">> }

\* Names of snapshot entries handed to BuildRestoreDumpFilename.
OriginalNames ==
    { <<"v","z","d","u","m","p","-","q","e","m","u","-","1","0","1","-","t",".","v","m","a",".","z","s","t">>,
      <<"o","l","d",".","V","M","A",".","G","Z">>,
      <<"c","u","s","t","o","m">>,
      <<"b","a","c","k","u","p",".","t","a","r",".","l","z","o">>,
      <<"a",".","v","m","a",".","b","-","c">>,
      <<"d","/","x",".","v","m","a">>,
      <<"x",".","t","a","r",".","v","m","a",".","g","z">>,
      <<"x",".","v","m","a",".">>,
      <<"X",".","T","a","r">>,
      <<"m",".","v","m","a","x",".","v","m","a",".","g","z">>,
      <<"c",".","t","a","r",".","t","a","r",".","z","s","t">>,
      <<"o","l","d",".","V","m","a",".","g","z">> }

CodecInit ==
    /\ codec = NoName
    /\ ExportIdle /\ StreamIdle /\ RunnerIdle /\ CacheIdle /\ ImportIdle
    /\ CancelIdle /\ LiveIdle /\ ShellIdle

CallBuildDumpFilename ==
    /\ codec.op = "none"
    /\ \E vmType \in {S_qemu, S_lxc}, vmid \in CodecVMIDs,
          compressionSuffix \in {<<>>, S_gz, S_zst, S_lzo} :
        codec' = [NoName EXCEPT
                    !.op = "BuildDumpFilename", !.vmType = vmType, !.vmid = vmid,
                    !.name = BuildDumpFilename(vmType, vmid, S_timestamp,
                                               dumpBaseExtension(vmType).ext,
                                               compressionSuffix)]
    /\ UNCHANGED <<exportVars, streamVars, runnerVars, cacheVars, importVars, cancelVars, liveVars, shellVars>>

CallBuildRestoreDumpFilename ==
    /\ codec.op = "none"
    /\ \E originalName \in OriginalNames, vmType \in {S_qemu, S_lxc},
          vmid \in CodecVMIDs :
        codec' = [NoName EXCEPT
                    !.op = "BuildRestoreDumpFilename", !.vmType = vmType,
                    !.vmid = vmid, !.archiveName = originalName,
                    !.name = BuildRestoreDumpFilename(originalName, vmType, vmid,
                                                      S_timestamp)]
    /\ UNCHANGED <<exportVars, streamVars, runnerVars, cacheVars, importVars, cancelVars, liveVars, shellVars>>

CallMetadataFilename ==
    /\ codec.op = "none"
    /\ \E archiveName \in CodecArchiveNames :
        codec' = [NoName EXCEPT !.op = "MetadataFilename",
                                !.archiveName = archiveName,
                                !.name = MetadataFilename(archiveName)]
    /\ UNCHANGED <<exportVars, streamVars, runnerVars, cacheVars, importVars, cancelVars, liveVars, shellVars>>

\* The name comes from a snapshot entry.
TakeName ==
    /\ codec.op = "none"
    /\ \E name \in DumpNames \cup SidecarNames :
        codec' = [NoName EXCEPT !.op = "entry", !.name = name]
    /\ UNCHANGED <<exportVars, streamVars, runnerVars, cacheVars, importVars, cancelVars, liveVars, shellVars>>

CallParseDumpFilename ==
    /\ codec.op # "none" /\ ~codec.dump.done
    /\ codec' = [codec EXCEPT !.dump =
                    LET r == ParseDumpFilename(codec.name)
                    IN  [done |-> TRUE, vmType |-> r.vmType, vmid |-> r.vmid,
                         err |-> r.err]]
    /\ UNCHANGED <<exportVars, streamVars, runnerVars, cacheVars, importVars, cancelVars, liveVars, shellVars>>

CallParseMetadataFilename ==
    /\ codec.op # "none" /\ ~codec.meta.done
    /\ codec' = [codec EXCEPT !.meta =
                    LET r == ParseMetadataFilename(codec.name)
                    IN  [done |-> TRUE, archiveName |-> r.archiveName, ok |-> r.ok]]
    /\ UNCHANGED <<exportVars, streamVars, runnerVars, cacheVars, importVars, cancelVars, liveVars, shellVars>>

CodecNext ==
    \/ CallBuildDumpFilename \/ CallBuildRestoreDumpFilename
    \/ CallMetadataFilename \/ TakeName
    \/ CallParseDumpFilename \/ CallParseMetadataFilename

CodecSpec == CodecInit /\ [][CodecNext]_vars

(* The grammar of dump names, stated on the name itself:
   vzdump[-v<n>]-(qemu|lxc)-<digits>-... *)

AllDigits(s) == s # <<>> /\ \A i \in 1..Len(s) : IsDigit(s[i])

\* The (kind, digits) for which s starts with -<kind>-<digits>-
KindAndIDs(s) ==
    { kd \in {S_qemu, S_lxc} \X {SubSeq(s, i, j) : i \in 1..Len(s), j \in 1..Len(s)} :
        /\ AllDigits(kd[2])
        /\ HasPrefix(s, <<"-">> \o kd[1] \o <<"-">> \o kd[2] \o <<"-">>) }

\* The version tags <n> for which fname is vzdump-v<n>-(qemu|lxc)-<digits>-...
VersionTags(fname) ==
    { v \in {SubSeq(fname, 9, 8 + n) : n \in 1..(Len(fname) - 8)} :
        /\ AllDigits(v)
        /\ HasPrefix(fname, S_vzdump \o <<"-","v">> \o v)
        /\ KindAndIDs(SubSeq(fname, 9 + Len(v), Len(fname))) # {} }

\* What follows vzdump and the version tag, if there is one.
AfterTag(fname) ==
    IF VersionTags(fname) # {}
    THEN SubSeq(fname, 9 + Len(CHOOSE v \in VersionTags(fname) : TRUE), Len(fname))
    ELSE SubSeq(fname, 7, Len(fname))

MatchesGrammar(fname) == HasPrefix(fname, S_vzdump) /\ KindAndIDs(AfterTag(fname)) # {}

\* The decimal number is 1.
IsOne(digits) == SubSeq(digits, FirstNotIn(digits, {"0"}, 1), Len(digits)) = <<"1">>

\* C21: ParseDumpFilename applied to a name built by BuildDumpFilename or by
\* BuildRestoreDumpFilename for a kind in {qemu, lxc} and a non-negative id
\* succeeds and returns that kind and that id; a built name carries no
\* version tag that the parser rejects.
C21_BuiltNamesParse ==
    (codec.op \in {"BuildDumpFilename", "BuildRestoreDumpFilename"}) =>
        /\ \A v \in VersionTags(codec.name) : IsOne(v)
        /\ codec.dump.done =>
            /\ codec.dump.err = NoErr
            /\ codec.dump.vmType = codec.vmType
            /\ codec.dump.vmid = codec.vmid

\* The name built for an entry named old.VMA.GZ and the machine lxc 0 has been
\* parsed, and the name built for a capture of qemu 101 as well.
C21_Witness ==
    /\ codec.dump.done
    /\ \/ /\ codec.op = "BuildRestoreDumpFilename"
          /\ codec.archiveName = <<"X",".","T","a","r">>
          /\ codec.vmType = S_lxc /\ codec.vmid = 0
          /\ HasSuffix(codec.name, <<".","T","a","r">>)
       \/ /\ codec.op = "BuildDumpFilename"
          /\ codec.vmType = S_qemu /\ codec.vmid = 101
          /\ HasSuffix(codec.name, <<".","v","m","a",".","z","s","t">>)

\* C22 as stated: the error is "unsupported version" exactly when the name
\* carries a version tag whose number differs from 1; a name matching the
\* grammar without a tag or with the tag of version 1 parses to its kind and
\* numeric id; a name that does not match the grammar is rejected as invalid.
C22_UnsupportedIffOtherVersion ==
    codec.dump.done =>
        LET fname == PathBase(codec.name)
            tags == VersionTags(fname)
            ids == KindAndIDs(AfterTag(fname))
        IN  /\ (codec.dump.err.msg = "unsupported vzdump filename version")
                    <=> (\E v \in tags : ~IsOne(v))
            /\ (MatchesGrammar(fname) /\ \A v \in tags : IsOne(v)) =>
                    /\ codec.dump.err = NoErr
                    /\ \E kd \in ids : codec.dump.vmType = kd[1]
            /\ ~MatchesGrammar(fname) =>
                    codec.dump.err.msg = "invalid vzdump filename"

\* C22, amended: the numbers are those an int holds.  A version tag too
\* large for an int is reported as an invalid version, an id too large for an
\* int as an invalid vmid.
C22_UnsupportedIffOtherVersionInRange ==
    codec.dump.done =>
        LET fname == PathBase(codec.name)
            tags == VersionTags(fname)
            ids == KindAndIDs(AfterTag(fname))
        IN  /\ (codec.dump.err.msg = "unsupported vzdump filename version")
                    <=> (\E v \in tags : ~AtoiOutOfRange(v) /\ ~IsOne(v))
            /\ (codec.dump.err.msg = "invalid vzdump filename version")
                    <=> (\E v \in tags : AtoiOutOfRange(v))
            /\ (MatchesGrammar(fname) /\ \A v \in tags : IsOne(v)) =>
                    \E kd \in ids :
                        IF AtoiOutOfRange(kd[2])
                        THEN codec.dump.err.msg = "invalid vmid in filename"
                        ELSE /\ codec.dump.err = NoErr
                             /\ codec.dump.vmType = kd[1]
                             /\ codec.dump.vmid = AtoiDigits(kd[2])
            /\ ~MatchesGrammar(fname) =>
                    codec.dump.err.msg = "invalid vzdump filename"

\* Names with the tags v01, v2 and a tag no int holds have been parsed, and so
\* has a name whose id no int holds.
C22_Witness ==
    /\ codec.dump.done /\ codec.op = "entry"
    /\ \/ /\ HasPrefix(codec.name, <<"v","z","d","u","m","p","-","v","0","1","-">>)
          /\ codec.dump.err = NoErr /\ codec.dump.vmid = 100
       \/ /\ HasPrefix(codec.name, <<"v","z","d","u","m","p","-","v","2","-","q">>)
          /\ codec.dump.err = Err("unsupported vzdump filename version", <<"2">>)
       \/ /\ HasPrefix(codec.name, S_vzdump \o <<"-","v">> \o S_tooLarge)
          /\ codec.dump.err.msg = "invalid vzdump filename version"
       \/ /\ HasPrefix(codec.name, S_vzdump \o <<"-">> \o S_qemu \o <<"-">> \o S_tooLarge)
          /\ codec.dump.err.msg = "invalid vmid in filename"

\* C23: ParseMetadataFilename(MetadataFilename(n)) is (n, true) for every
\* non-empty n; an input without the prefix, without the suffix or with nothing
\* between them is rejected.
C23_SidecarNameRoundTrip ==
    codec.meta.done =>
        /\ codec.op = "MetadataFilename" =>
                codec.meta.ok /\ codec.meta.archiveName = codec.archiveName
        /\ (\/ ~HasPrefix(codec.name, metadataPrefix)
            \/ ~HasSuffix(codec.name, metadataSuffix)
            \/ codec.name = metadataPrefix \o metadataSuffix) => ~codec.meta.ok
        /\ codec.meta.ok => codec.name = MetadataFilename(codec.meta.archiveName)

\* The sidecar name of the archive a.json.json has been parsed.
C23_Witness ==
    /\ codec.op = "MetadataFilename" /\ codec.meta.done
    /\ codec.archiveName = <<"a",".","j","s","o","n",".","j","s","o","n">>
    /\ codec.meta.ok

-----------------------------------------------------------------------------
(* ProxmoxImporter.Import (the importer, in src/README.md).

   importer holds the position of Import, the cleanup option, the machines the
   selection resolved to, the records sent on the records channel, the calls
   made on the client and the error returned.  The machine is captured as in
   StreamSpec: proc is its vzdump process and capture the reader handed to
   the consumer of the payload record, which reads and closes it. *)

\* NewDumpMetadata leaving vm_type out.
NewDumpMetadata_NoVMType(vmid, archiveName) ==
    [Format |-> MetadataFormat, Version |-> MetadataVersion, VMID |-> vmid,
     VMType |-> <<>>, ArchiveName |-> archiveName]

\* NewDumpMetadata: the fields of DumpMetadata that the restore reads.
NewDumpMetadata(vmid, archiveName) ==
    LET parsed == ParseDumpFilename(archiveName)
    IN  [Format |-> MetadataFormat, Version |-> MetadataVersion, VMID |-> vmid,
         VMType |-> IF parsed.err = NoErr THEN parsed.vmType ELSE <<>>,
         ArchiveName |-> archiveName]

\* EncodeDumpMetadata: the JSON object, as DecodeDumpMetadata reads it.
EncodeDumpMetadata(meta) ==
    Body(meta.Format, meta.Version, meta.VMID, meta.VMType, meta.ArchiveName)

\* path.IsAbs
IsAbs(p) == HasPrefix(p, <<"/">>)

\* What the consumer answers on the results channel for a record: no error,
\* an error, or nothing (the channel is closed).
Acks == {"ok", "error", "closed"}

\* The machines of a backup job, as Proc describes them.
ImportProcs ==
    { [Proc(t, out, <<" ","e","\n">>, x) EXCEPT !.vmid = id] :
        t \in {S_qemu, S_lxc}, id \in {7, 101}, x \in BOOLEAN,
        out \in { <<>>, gzipMagic, Pad(zstdMagic, StreamHeaderSize + 2),
                  Pad(<<>>, StreamHeaderSize - 1) } }
    \cup { [Proc(S_qemu, gzipMagic, <<>>, FALSE) EXCEPT !.vmTypeErr = TRUE],
           Proc(<<"o","p","e","n","v","z">>, gzipMagic, <<>>, FALSE) }

\* The machine backed up after the first one of a selection of several.
NextProcs(vmid) ==
    { [Proc(S_qemu, gzipMagic, <<" ","e","\n">>, FALSE) EXCEPT !.vmid = vmid],
      [Proc(S_lxc, Pad(zstdMagic, StreamHeaderSize + 2), <<>>, FALSE)
           EXCEPT !.vmid = vmid],
      [Proc(S_qemu, gzipMagic, <<>>, FALSE) EXCEPT !.vmid = vmid, !.startErr = TRUE] }

\* The selections resolveVMIDs resolves to, given the first machine.
Selections(vmid) == {<<>>, <<vmid>>, <<vmid, 102>>}

\* The events of Import: the backup command started for a machine, a record
\* sent on the records channel, and what was received from the results
\* channel after it.
EvBackup(vmid) == [Ev("BackupVMStream") EXCEPT !.rec = vmid]
EvSend(id) == [Ev("Send") EXCEPT !.rec = id]
EvAck(id, ack) == [Ev("Ack") EXCEPT !.rec = id, !.name = <<ack>>]

ImportInit ==
    /\ proc \in ImportProcs /\ capture = NewCapture /\ remote = NoHandle
    /\ \E cleanup \in BOOLEAN, vmids \in Selections(proc.vmid) :
        importer = [pc |-> "start", cleanup |-> cleanup, vmids |-> vmids, i |-> 1,
                    records |-> <<>>, trace |-> <<>>, err |-> NoErr]
    /\ ExportIdle /\ RunnerIdle /\ CacheIdle /\ CodecIdle /\ CancelIdle
    /\ LiveIdle /\ ShellIdle

\* Import from the top of the loop to the send of the payload record:
\* resolveVMIDs before the first machine, ctx.Err, BackupVMStream.
ImportBackup ==
    /\ importer.pc = "start"
    /\ \E collected \in Prefixes(proc.stderr), cancelled \in BOOLEAN :
        LET c == backupVMStream(collected)
            archiveName == PathBase(c.archivePath)
            vmid == importer.vmids[importer.i]
            id == 2 * importer.i - 1
        IN  IF importer.vmids = <<>>
            THEN /\ importer' = [importer EXCEPT
                        !.pc = "returned",
                        !.err = Err("no VM/CT found for selection", <<>>)]
                 /\ UNCHANGED capture
            ELSE IF cancelled
            THEN /\ importer' = [importer EXCEPT
                        !.pc = "returned", !.err = Err("context canceled", <<>>)]
                 /\ UNCHANGED capture
            ELSE /\ capture' = c
                 /\ importer' =
                      IF c.pc = "failed"
                      THEN [importer EXCEPT
                              !.pc = "returned", !.err = c.err,
                              !.trace = @ \o <<EvBackup(vmid)>>]
                      ELSE [importer EXCEPT
                              !.pc = "payload sent",
                              !.trace = @ \o <<EvBackup(vmid), EvSend(id)>>,
                              !.records = @ \o
                                  <<Record(id, <<"/">> \o archiveName, "", NoBody)>>]
    /\ UNCHANGED <<proc, remote, exportVars, runnerVars, cacheVars, codecVars, cancelVars, liveVars, shellVars>>

\* Import from the answer for the payload record to the send of the sidecar.
ImportSidecar ==
    /\ importer.pc = "payload sent"
    /\ \E ack \in Acks :
        LET archiveName == PathBase(capture.archivePath)
            meta == NewDumpMetadata(importer.vmids[importer.i], archiveName)
            metaPath == <<"/">> \o MetadataFilename(archiveName)
            id == 2 * importer.i
        IN  importer' =
              IF ack = "error"
              THEN [importer EXCEPT !.pc = "returned",
                                    !.err = Err("result", <<>>),
                                    !.trace = @ \o <<EvAck(id - 1, ack)>>]
              ELSE [importer EXCEPT
                      !.pc = "sidecar sent",
                      !.trace = @ \o <<EvAck(id - 1, ack), EvSend(id)>>,
                      !.records = @ \o
                          <<Record(id, metaPath, "", EncodeDumpMetadata(meta))>>]
    /\ UNCHANGED <<streamVars, exportVars, runnerVars, cacheVars, codecVars, cancelVars, liveVars, shellVars>>

\* Import from the answer for the sidecar record to the end of the loop body:
\* it returns, or goes on with the next machine of the selection.
ImportCleanup ==
    /\ importer.pc = "sidecar sent"
    /\ \E ack \in Acks, removeFails \in BOOLEAN :
        LET archivePath == capture.archivePath
            removeErr == IF removeFails THEN Err("remove failed", archivePath)
                         ELSE NoErr
            removes == importer.cleanup /\ archivePath # <<>> /\ IsAbs(archivePath)
            acked == [importer EXCEPT
                        !.trace = @ \o <<EvAck(2 * importer.i, ack)>>
                                    \o (IF ack # "error" /\ removes
                                        THEN <<EvRemove(archivePath, removeErr)>>
                                        ELSE <<>>)]
        IN  IF ack = "error"
            THEN /\ importer' = [acked EXCEPT !.pc = "returned",
                                              !.err = Err("result", <<>>)]
                 /\ UNCHANGED <<proc, capture>>
            ELSE IF removes /\ removeErr # NoErr
            THEN /\ importer' = [acked EXCEPT !.pc = "returned", !.err = removeErr]
                 /\ UNCHANGED <<proc, capture>>
            ELSE IF importer.i < Len(importer.vmids)
            THEN /\ importer' = [acked EXCEPT !.pc = "start", !.i = @ + 1]
                 /\ proc' \in NextProcs(importer.vmids[importer.i + 1])
                 /\ capture' = NewCapture
            ELSE /\ importer' = [acked EXCEPT !.pc = "returned"]
                 /\ UNCHANGED <<proc, capture>>
    /\ UNCHANGED <<remote, exportVars, runnerVars, cacheVars, codecVars, cancelVars, liveVars, shellVars>>

ImportNext ==
    \/ ImportBackup \/ ImportSidecar \/ ImportCleanup
    \/ CaptureRead \/ CaptureClose

ImportSpec == ImportInit /\ [][ImportNext]_vars

\* C24: the sidecar record of a backed-up machine is named
\* MetadataFilename(archive name of the payload record) and states that
\* archive name, the id backed up and the kind the archive name was built
\* from; it passes DecodeDumpMetadata and validateMetadata.
C24_SidecarMatchesPayload ==
    (importer.pc \in {"sidecar sent", "returned"}
       /\ Len(importer.records) = 2 * importer.i) =>
        LET payload == importer.records[2 * importer.i - 1]
            sidecar == importer.records[2 * importer.i]
            archiveName == PathBase(payload.Pathname)
            decoded == DecodeDumpMetadata(sidecar.body)
        IN  /\ sidecar.Pathname = <<"/">> \o MetadataFilename(archiveName)
            /\ ParseMetadataFilename(PathBase(sidecar.Pathname))
                   = [archiveName |-> archiveName, ok |-> TRUE]
            /\ sidecar.body.ArchiveName = archiveName
            /\ sidecar.body.VMID = proc.vmid
            /\ proc.vmid = importer.vmids[importer.i]
            /\ sidecar.body.VMType = proc.vmType
            /\ HasPrefix(archiveName, S_vzdump \o <<"-">> \o proc.vmType \o <<"-">>
                                      \o Itoa(proc.vmid) \o <<"-">>)
            /\ decoded.err = NoErr
            /\ validateMetadata(archiveName, decoded.meta) = NoErr

\* Container 7 was captured with zstd compression and both records were sent.
C24_Witness ==
    /\ Len(importer.records) = 2
    /\ proc.vmType = S_lxc /\ proc.vmid = 7
    /\ HasSuffix(importer.records[1].Pathname, <<".","t","a","r",".","z","s","t">>)
    /\ importer.records[2].body.VMType = S_lxc

\* C27: Import never calls Create or Remove on the client, whatever the
\* cleanup option.
C27_ImportNeverTouchesStorage ==
    \A i \in 1..Len(importer.trace) :
        importer.trace[i].op \notin {"Create", "Remove"}

\* Import returned without error with cleanup set, after both records.
C27_Witness ==
    /\ importer.pc = "returned" /\ importer.err = NoErr
    /\ importer.cleanup /\ Len(importer.records) = 2
    /\ importer.trace # <<>>

\* The machines of the selection for which the backup command was started.
BackedUp == { importer.trace[n].rec : n \in { m \in 1..Len(importer.trace) :
                                        importer.trace[m].op = "BackupVMStream" } }

\* Import returned the error of a capture or of an acknowledgement.
TransportError(err) ==
    /\ err # NoErr
    /\ err.msg \notin {"no VM/CT found for selection", "context canceled",
                       "remove failed"}

\* C32: when the archive of one machine fails with a transport error, the
\* other machines of the selection are still backed up.
C32_OtherMachinesStillBackedUp ==
    (importer.pc = "returned" /\ TransportError(importer.err)) =>
        \A k \in 1..Len(importer.vmids) : importer.vmids[k] \in BackedUp

\* The records channel carries payload, sidecar, payload, sidecar, ...
SendsOf(id) == { n \in 1..Len(importer.trace) :
                   importer.trace[n] = EvSend(id) }
AcksOf(id) == { n \in 1..Len(importer.trace) :
                  importer.trace[n].op = "Ack" /\ importer.trace[n].rec = id }
\* The backup command of machine k was started at position n of the trace.
BackupAt(k, n) ==
    /\ n \in 1..Len(importer.trace)
    /\ importer.trace[n] = EvBackup(importer.vmids[k])

\* C33: the machines are processed one at a time in the resolved order: the
\* sidecar of a machine is sent after its payload was acknowledged, and the
\* backup command of the next machine is started after both records of the
\* machine before were acknowledged.
C33_OneMachineAtATime ==
    /\ \A k \in 1..Len(importer.vmids) :
         \A n \in SendsOf(2 * k) :
            \E a \in AcksOf(2 * k - 1) :
               /\ a < n
               /\ importer.trace[a].name # <<"closed">>
               /\ \E m \in SendsOf(2 * k - 1) : m < a
    /\ \A k \in 2..Len(importer.vmids) :
         \A n \in 1..Len(importer.trace) :
            BackupAt(k, n) =>
               \A id \in {2 * k - 3, 2 * k - 2} :
                  \E a \in AcksOf(id) :
                     a < n /\ importer.trace[a].name # <<"closed">>

\* C33 when every record is answered on the results channel.
AllAnswered ==
    \A n \in 1..Len(importer.trace) :
        importer.trace[n].op = "Ack" => importer.trace[n].name # <<"closed">>
OneMachineAtATimeWhenAnswered ==
    AllAnswered =>
        /\ \A k \in 1..Len(importer.vmids) :
             \A n \in SendsOf(2 * k) :
                \E a \in AcksOf(2 * k - 1) :
                   a < n /\ \E m \in SendsOf(2 * k - 1) : m < a
        /\ \A k \in 2..Len(importer.vmids) :
             \A n \in 1..Len(importer.trace) :
                BackupAt(k, n) =>
                   \A id \in {2 * k - 3, 2 * k - 2} :
                      \E a \in AcksOf(id) : a < n

\* The endings .<base-ext> and .<base-ext>.<ext> of name, with the base
\* extension of vmType in any case and ext made of lower-case letters and
\* digits.
ArchiveEndings(name, vmType) ==
    LET baseExt == IF vmType = S_lxc THEN <<".","t","a","r">> ELSE <<".","v","m","a">>
    IN  { e \in { SubSeq(name, i, Len(name)) : i \in 1..Len(name) } :
            /\ Len(e) >= 4
            /\ ToLower(SubSeq(e, 1, 4)) = baseExt
            /\ \/ Len(e) = 4
               \/ /\ Len(e) > 5 /\ e[5] = "."
                  /\ \A i \in 6..Len(e) :
                        IsDigit(e[i]) \/ \E k \in 1..26 : Lowers[k] = e[i] }

\* C39: the name built by BuildRestoreDumpFilename ends with the ending
\* .<base-ext> or .<base-ext>.<ext> of the incoming name, and with the bare
\* base extension when the incoming name has no such ending.
C39_CompressionExtensionPreserved ==
    codec.op = "BuildRestoreDumpFilename" =>
        LET endings == ArchiveEndings(codec.archiveName, codec.vmType)
            stem == S_vzdump \o <<"-">> \o codec.vmType \o <<"-">>
                    \o Itoa(codec.vmid) \o <<"-">> \o S_timestamp
            baseExt == IF codec.vmType = S_lxc THEN <<".","t","a","r">>
                       ELSE <<".","v","m","a">>
        IN  /\ \A e \in endings : HasSuffix(codec.name, e)
            /\ endings = {} => codec.name = stem \o baseExt

\* C39 for the incoming names in which the base extension occurs once and
\* whose ending is in lower case.
RestoreSuffixWhenUnambiguous ==
    (/\ codec.op = "BuildRestoreDumpFilename"
     /\ codec.archiveName \in
          { <<"v","z","d","u","m","p","-","q","e","m","u","-","1","0","1","-","t",".","v","m","a",".","z","s","t">>,
            <<"c","u","s","t","o","m">>,
            <<"b","a","c","k","u","p",".","t","a","r",".","l","z","o">>,
            <<"a",".","v","m","a",".","b","-","c">>,
            <<"d","/","x",".","v","m","a">>,
            <<"x",".","v","m","a",".">>,
            <<"o","l","d",".","V","m","a",".","g","z">> }) =>
        LET endings == ArchiveEndings(codec.archiveName, codec.vmType)
        IN  /\ \A e \in endings : HasSuffix(codec.name, e)
            /\ endings = {} =>
                  \E ext \in {<<".","t","a","r">>, <<".","v","m","a">>} :
                      HasSuffix(codec.name, S_timestamp \o ext)

-----------------------------------------------------------------------------
(* Cancellation of the context: which of the operations the executors start  *)
(* are stopped by it (specification CancelSpec)                              *)

MaxInflight == 2
Slots == 1..MaxInflight

\* The operations of the executors that start a child process or a session.
\* Open and Create of LocalRunner are os.Open and os.Create: they start none.
Operations == {"LocalRunner.Run", "LocalRunner.Stream",
               "SSHRunner.Run", "SSHRunner.Open", "SSHRunner.Create"}

\* exec.CommandContext ties the child to the context.
isLocalChild(op) == op \in {"LocalRunner.Run", "LocalRunner.Stream"}

NoOperation == [op |-> "none", pc |-> "idle"]

CancelInit ==
    /\ inflight = [ctxDone |-> FALSE, ops |-> [s \in Slots |-> NoOperation]]
    /\ ExportIdle /\ StreamIdle /\ RunnerIdle /\ CacheIdle /\ CodecIdle /\ ImportIdle
    /\ LiveIdle /\ ShellIdle

\* A child of exec.CommandContext is not started when the context is done.
StartChild(s, op) ==
    [inflight EXCEPT !.ops[s] =
        [op |-> op, pc |-> IF inflight.ctxDone THEN "failed" ELSE "running"]]

\* session.Run or session.Start: the context is not consulted.
StartSession(s, op) ==
    [inflight EXCEPT !.ops[s] = [op |-> op, pc |-> "running"]]

LocalRunner_RunStart(s) ==
    /\ inflight.ops[s].pc = "idle"
    /\ inflight' = StartChild(s, "LocalRunner.Run")
    /\ UNCHANGED <<exportVars, streamVars, runnerVars, cacheVars, codecVars, importVars, liveVars, shellVars>>

LocalRunner_Stream(s) ==
    /\ inflight.ops[s].pc = "idle"
    /\ inflight' = StartChild(s, "LocalRunner.Stream")
    /\ UNCHANGED <<exportVars, streamVars, runnerVars, cacheVars, codecVars, importVars, liveVars, shellVars>>

SSHRunner_RunStart(s) ==
    /\ inflight.ops[s].pc = "idle"
    /\ inflight' = StartSession(s, "SSHRunner.Run")
    /\ UNCHANGED <<exportVars, streamVars, runnerVars, cacheVars, codecVars, importVars, liveVars, shellVars>>

SSHRunner_Open(s) ==
    /\ inflight.ops[s].pc = "idle"
    /\ inflight' = StartSession(s, "SSHRunner.Open")
    /\ UNCHANGED <<exportVars, streamVars, runnerVars, cacheVars, codecVars, importVars, liveVars, shellVars>>

SSHRunner_Create(s) ==
    /\ inflight.ops[s].pc = "idle"
    /\ inflight' = StartSession(s, "SSHRunner.Create")
    /\ UNCHANGED <<exportVars, streamVars, runnerVars, cacheVars, codecVars, importVars, liveVars, shellVars>>

\* The caller's context is cancelled.
Cancel ==
    /\ ~inflight.ctxDone
    /\ inflight' = [inflight EXCEPT !.ctxDone = TRUE]
    /\ UNCHANGED <<exportVars, streamVars, runnerVars, cacheVars, codecVars, importVars, liveVars, shellVars>>

\* os/exec kills the child of exec.CommandContext once the context is done.
KillOnDone(s) ==
    /\ inflight.ctxDone
    /\ inflight.ops[s].pc = "running"
    /\ isLocalChild(inflight.ops[s].op)
    /\ inflight' = [inflight EXCEPT !.ops[s].pc = "killed"]
    /\ UNCHANGED <<exportVars, streamVars, runnerVars, cacheVars, codecVars, importVars, liveVars, shellVars>>

\* The goroutine of SSHRunner.Run: <-ctx.Done(); session.Close().
CloseOnDone(s) ==
    /\ inflight.ctxDone
    /\ inflight.ops[s].pc = "running"
    /\ inflight.ops[s].op = "SSHRunner.Run"
    /\ inflight' = [inflight EXCEPT !.ops[s].pc = "closed"]
    /\ UNCHANGED <<exportVars, streamVars, runnerVars, cacheVars, codecVars, importVars, liveVars, shellVars>>

\* The command ends by itself: cmd.Run, cmd.Wait or session.Wait returns,
\* and the deferred or following session.Close runs.
CommandExits(s) ==
    /\ inflight.ops[s].pc = "running"
    /\ inflight' = [inflight EXCEPT !.ops[s].pc = "exited"]
    /\ UNCHANGED <<exportVars, streamVars, runnerVars, cacheVars, codecVars, importVars, liveVars, shellVars>>

CancelNext ==
    \/ \E s \in Slots : LocalRunner_RunStart(s)
    \/ \E s \in Slots : LocalRunner_Stream(s)
    \/ \E s \in Slots : SSHRunner_RunStart(s)
    \/ \E s \in Slots : SSHRunner_Open(s)
    \/ \E s \in Slots : SSHRunner_Create(s)
    \/ Cancel
    \/ \E s \in Slots : KillOnDone(s)
    \/ \E s \in Slots : CloseOnDone(s)
    \/ \E s \in Slots : CommandExits(s)

\* The watchers run whenever they can; nothing makes a command end by itself.
CancelSpec ==
    /\ CancelInit
    /\ [][CancelNext]_vars
    /\ \A s \in Slots : WF_vars(KillOnDone(s)) /\ WF_vars(CloseOnDone(s))

\* C25: once the context is cancelled, every operation in flight is stopped:
\* the local child is killed, the remote session is closed, or the command
\* has ended, whichever operation started it.
C25_CancelStopsEveryOperation ==
    \A s \in Slots :
        (inflight.ctxDone /\ inflight.ops[s].pc = "running")
            ~> (inflight.ops[s].pc # "running")

\* The part of C25 that holds: the children of both local operations and the
\* session of SSHRunner.Run are stopped.
CancelStopsWatchedOperations ==
    \A s \in Slots :
        (/\ inflight.ctxDone
         /\ inflight.ops[s].pc = "running"
         /\ inflight.ops[s].op \notin {"SSHRunner.Open", "SSHRunner.Create"})
            ~> (inflight.ops[s].pc \in {"killed", "closed", "exited"})

-----------------------------------------------------------------------------
(* A capture step by step (specification LiveSpec): the vzdump child writes  *)
(* to its two pipes and exits, the goroutine of BackupVMStream drains the    *)
(* diagnostic pipe into stderrBuf, BackupVMStream reads the header, and the  *)
(* consumer reads and closes the reader.  Output is counted in bytes.        *)

\* The bytes a pipe holds before a write to it blocks.
PipeCap == 2

\* What the child writes to its output and to its diagnostic channel.
LiveOutputs == {0, 1, StreamHeaderSize, StreamHeaderSize + PipeCap + 1}
LiveDiagnostics == {0, 2}

LiveInit ==
    /\ \E out \in LiveOutputs, diag \in LiveDiagnostics, fails, fault \in BOOLEAN :
        live = [child |-> "running", signalled |-> FALSE, fails |-> fails,
                toOut |-> out, toErr |-> diag, outPipe |-> 0, errPipe |-> 0,
                errWritten |-> 0, pipesClosed |-> FALSE,
                stderrBuf |-> 0, drain |-> "running",
                pc |-> "header", header |-> 0, fault |-> fault, call |-> "none",
                log |-> <<>>, reader |-> FALSE, errText |-> 0,
                readWhileDraining |-> FALSE, finishErr |-> FALSE]
    /\ ExportIdle /\ StreamIdle /\ RunnerIdle /\ CacheIdle /\ CodecIdle /\ ImportIdle
    /\ CancelIdle /\ ShellIdle

\* The child writes a byte of output; the write blocks while the pipe is full.
ChildWritesStdout ==
    /\ live.child = "running" /\ live.toOut > 0 /\ live.outPipe < PipeCap
    /\ live' = [live EXCEPT !.toOut = @ - 1, !.outPipe = @ + 1]
    /\ UNCHANGED <<exportVars, streamVars, runnerVars, cacheVars, codecVars, importVars, cancelVars, shellVars>>

\* The child writes a byte to its diagnostic channel.
ChildWritesStderr ==
    /\ live.child = "running" /\ live.toErr > 0 /\ live.errPipe < PipeCap
    /\ live' = [live EXCEPT !.toErr = @ - 1, !.errPipe = @ + 1, !.errWritten = @ + 1]
    /\ UNCHANGED <<exportVars, streamVars, runnerVars, cacheVars, codecVars, importVars, cancelVars, shellVars>>

\* The child has written everything and exits.
ChildExits ==
    /\ live.child = "running" /\ live.toOut = 0 /\ live.toErr = 0
    /\ live' = [live EXCEPT !.child = "exited"]
    /\ UNCHANGED <<exportVars, streamVars, runnerVars, cacheVars, codecVars, importVars, cancelVars, shellVars>>

\* cmd.Process.Kill has reached the child.
ChildKilled ==
    /\ live.child = "running" /\ live.signalled
    /\ live' = [live EXCEPT !.child = "exited", !.fails = TRUE]
    /\ UNCHANGED <<exportVars, streamVars, runnerVars, cacheVars, codecVars, importVars, cancelVars, shellVars>>

\* io.Copy(stderrBuf, stream.Stderr): one read of the pipe.
DrainCopies ==
    /\ live.drain = "running" /\ ~live.pipesClosed /\ live.errPipe > 0
    /\ live' = [live EXCEPT !.stderrBuf = @ + live.errPipe, !.errPipe = 0]
    /\ UNCHANGED <<exportVars, streamVars, runnerVars, cacheVars, codecVars, importVars, cancelVars, shellVars>>

\* io.Copy returns, at the end of the pipe or because cmd.Wait closed it, and
\* the deferred close(doneCh) runs.
DrainEnds ==
    /\ live.drain = "running"
    /\ live.pipesClosed \/ (live.errPipe = 0 /\ live.child = "exited")
    /\ live' = [live EXCEPT !.drain = "done"]
    /\ UNCHANGED <<exportVars, streamVars, runnerVars, cacheVars, codecVars, importVars, cancelVars, shellVars>>

\* readStreamHeader, io.ReadFull: one read of the output pipe.
ReadHeader ==
    /\ live.pc = "header" /\ live.outPipe > 0
    /\ LET k == Min(live.outPipe, StreamHeaderSize - live.header)
       IN  live' = [live EXCEPT
                      !.header = @ + k, !.outPipe = @ - k,
                      !.pc = IF live.header + k = StreamHeaderSize THEN "open" ELSE @,
                      !.reader = live.header + k = StreamHeaderSize]
    /\ UNCHANGED <<exportVars, streamVars, runnerVars, cacheVars, codecVars, importVars, cancelVars, shellVars>>

\* io.ReadFull meets the end of the output: a short header is kept, an empty
\* one takes the failure path.
HeaderEOF ==
    /\ live.pc = "header" /\ live.outPipe = 0 /\ live.child = "exited"
    /\ live' = [live EXCEPT !.pc = IF live.header = 0 THEN "abort" ELSE "open",
                            !.reader = live.header # 0]
    /\ UNCHANGED <<exportVars, streamVars, runnerVars, cacheVars, codecVars, importVars, cancelVars, shellVars>>

\* The read of the header fails with another error.
HeaderFault ==
    /\ live.pc = "header" /\ live.fault
    /\ live' = [live EXCEPT !.pc = "abort"]
    /\ UNCHANGED <<exportVars, streamVars, runnerVars, cacheVars, codecVars, importVars, cancelVars, shellVars>>

\* stream.Abort: cmd.Process.Kill.
Abort ==
    /\ live.pc = "abort"
    /\ live' = [live EXCEPT !.signalled = TRUE, !.pc = "finish",
                            !.log = Append(@, "Abort")]
    /\ UNCHANGED <<exportVars, streamVars, runnerVars, cacheVars, codecVars, importVars, cancelVars, shellVars>>

\* cmd.Wait returning at once.
FinishReady_NoWait(l) == TRUE
\* cmd.Wait returns when the child has exited.
FinishReady(l) == l.child = "exited"

\* <-doneCh returning at once.
JoinReady_NoWait(l) == TRUE
\* <-doneCh returns when the drain has closed the channel.
JoinReady(l) == l.drain = "done"

\* cmd.Wait: it returns after the exit of the child and closes the reading
\* ends of both pipes.  (the record after the call)
cmdWait(l, event) ==
    [l EXCEPT !.pipesClosed = TRUE, !.log = Append(@, event)]

\* stderrBuf.String() is read into an error message.  (the record after)
readStderrBuf(l) ==
    [l EXCEPT !.errText = l.stderrBuf,
              !.readWhileDraining = @ \/ l.drain # "done",
              !.log = Append(@, "String")]

\* stream.Finish on the failure path of BackupVMStream.
Finish ==
    /\ live.pc = "finish" /\ FinishReady(live)
    /\ live' = [cmdWait(live, "Finish") EXCEPT !.pc = "join"]
    /\ UNCHANGED <<exportVars, streamVars, runnerVars, cacheVars, codecVars, importVars, cancelVars, shellVars>>

\* <-doneCh on the failure path, the error message and the return.
JoinDrain ==
    /\ live.pc = "join" /\ JoinReady(live)
    /\ live' = [readStderrBuf([live EXCEPT !.log = Append(@, "<-doneCh")])
                   EXCEPT !.pc = "failed"]
    /\ UNCHANGED <<exportVars, streamVars, runnerVars, cacheVars, codecVars, importVars, cancelVars, shellVars>>

\* streamReadCloser.Read returning data.
ConsumerReads ==
    /\ live.pc = "open" /\ live.call = "none" /\ live.outPipe > 0
    /\ live' = [live EXCEPT !.outPipe = 0]
    /\ UNCHANGED <<exportVars, streamVars, runnerVars, cacheVars, codecVars, importVars, cancelVars, shellVars>>

\* streamReadCloser.Read at the end of the output: it enters finalize.
ConsumerReadsEOF ==
    /\ live.pc = "open" /\ live.call = "none"
    /\ live.outPipe = 0 /\ live.child = "exited"
    /\ live' = [live EXCEPT !.call = "Read", !.pc = "finalize: finish"]
    /\ UNCHANGED <<exportVars, streamVars, runnerVars, cacheVars, codecVars, importVars, cancelVars, shellVars>>

\* streamReadCloser.Close: it enters finalize, whatever was read so far.
ConsumerCloses ==
    /\ live.pc = "open" /\ live.call = "none"
    /\ live' = [live EXCEPT !.call = "Close", !.pc = "finalize: finish"]
    /\ UNCHANGED <<exportVars, streamVars, runnerVars, cacheVars, codecVars, importVars, cancelVars, shellVars>>

\* finalize: err = r.finish().
FinalizeFinish ==
    /\ live.pc = "finalize: finish" /\ FinishReady(live)
    /\ live' = [cmdWait(live, "Finish") EXCEPT !.pc = "finalize: join"]
    /\ UNCHANGED <<exportVars, streamVars, runnerVars, cacheVars, codecVars, importVars, cancelVars, shellVars>>

\* finalize: <-r.stderrDone, the error message when the command failed, and
\* the return of the call.
FinalizeJoin ==
    /\ live.pc = "finalize: join" /\ JoinReady(live)
    /\ LET joined == [live EXCEPT !.log = Append(@, "<-doneCh")]
       IN  live' = [(IF live.fails THEN readStderrBuf(joined) ELSE joined)
                       EXCEPT !.pc = "finalized", !.call = "none",
                              !.finishErr = live.fails]
    /\ UNCHANGED <<exportVars, streamVars, runnerVars, cacheVars, codecVars, importVars, cancelVars, shellVars>>

LiveNext ==
    \/ ChildWritesStdout \/ ChildWritesStderr \/ ChildExits \/ ChildKilled
    \/ DrainCopies \/ DrainEnds
    \/ ReadHeader \/ HeaderEOF \/ HeaderFault
    \/ Abort \/ Finish \/ JoinDrain
    \/ ConsumerReads \/ ConsumerReadsEOF \/ ConsumerCloses
    \/ FinalizeFinish \/ FinalizeJoin

\* The child, the drain and the calls in progress take their steps; the
\* consumer is free to call Read and Close or not.
LiveSpec ==
    /\ LiveInit
    /\ [][LiveNext]_vars
    /\ WF_vars(ChildWritesStdout) /\ WF_vars(ChildWritesStderr)
    /\ WF_vars(ChildExits) /\ WF_vars(ChildKilled)
    /\ WF_vars(DrainCopies) /\ WF_vars(DrainEnds)
    /\ WF_vars(ReadHeader) /\ WF_vars(HeaderEOF)
    /\ WF_vars(Abort) /\ WF_vars(Finish) /\ WF_vars(JoinDrain)
    /\ WF_vars(FinalizeFinish) /\ WF_vars(FinalizeJoin)

\* C34: when BackupVMStream returns from a failed or empty header read, it
\* has killed the child, then waited for it, then joined the drain; the child
\* has exited, the drain has ended and no reader is returned.
C34_HeaderFailureStopsEverything ==
    live.pc = "failed" =>
        /\ live.log = <<"Abort", "Finish", "<-doneCh", "String">>
        /\ live.child = "exited"
        /\ live.drain = "done"
        /\ ~live.reader

\* The header read failed while the child still had output to write: the
\* child was killed, and BackupVMStream has returned.
C34_Witness ==
    /\ live.pc = "failed" /\ live.fault
    /\ live.toOut > 0 /\ live.signalled /\ live.header > 0

\* C35: stderrBuf is never read while the drain can still write to it.
C35_BufferReadAfterDrain ==
    /\ ~live.readWhileDraining
    /\ (live.log # <<>> /\ live.log[Len(live.log)] = "String") =>
          /\ live.drain = "done"
          /\ live.child = "exited"

\* finalize built the message of a failed command from a buffer that holds
\* diagnostic text.
C35_Witness ==
    /\ live.pc = "finalized" /\ live.finishErr /\ live.errText > 0
    /\ ~live.signalled

\* C36: once finalize has completed for a command that failed, the text in
\* its error is everything the child wrote to its diagnostic channel.
C36_DiagnosticTextComplete ==
    (live.pc = "finalized" /\ live.finishErr) => live.errText = live.errWritten

\* C37: a Close of the reader returns, whenever it is called.
C37_CloseTerminates ==
    (live.call = "Close") ~> (live.pc = "finalized")

-----------------------------------------------------------------------------
(* The command lines of the remote executor (specification ShellSpec):       *)
(* internal/proxmox/runner.go, shellCommand and shellQuote, and the way a    *)
(* POSIX shell reads the line back.                                          *)

RECURSIVE ReplaceAll(_, _, _)
\* strings.ReplaceAll for a one-character old
ReplaceAll(str, old, new) ==
    IF str = <<>> THEN <<>>
    ELSE (IF str[1] = old THEN new ELSE <<str[1]>>) \o ReplaceAll(Tail(str), old, new)

\* shellQuote replacing nothing inside the quotes.
shellQuote_NoEscape(value) ==
    IF value = <<>> THEN <<"'", "'">> ELSE <<"'">> \o value \o <<"'">>

shellQuote(value) ==
    IF value = <<>> THEN <<"'", "'">>
    ELSE <<"'">> \o ReplaceAll(value, "'", <<"'", "\"", "'", "\"", "'">>) \o <<"'">>

RECURSIVE Join(_, _)
\* strings.Join
Join(parts, sep) ==
    IF parts = <<>> THEN <<>>
    ELSE IF Len(parts) = 1 THEN parts[1]
    ELSE parts[1] \o sep \o Join(Tail(parts), sep)

shellCommand(name, args) ==
    Join([i \in 1..(Len(args) + 1) |-> shellQuote((<<name>> \o args)[i])], <<" ">>)

S_cat == <<"c","a","t">>
S_dashdash == <<"-","-">>

\* SSHRunner.Run, Stat and Remove: the line handed to session.Run.
runLine(name, args) == shellCommand(name, args)
statLine(filepath) ==
    runLine(<<"s","t","a","t">>, << <<"-","c">>, <<"%","s"," ","%","Y">>, S_dashdash, filepath >>)
removeLine(filepath) ==
    runLine(<<"r","m">>, << <<"-","f">>, S_dashdash, filepath >>)
\* SSHRunner.Open and Create: the line handed to session.Start.
openLine(filepath) == S_cat \o <<" ">> \o S_dashdash \o <<" ">> \o shellQuote(filepath)
createLine(filepath) == S_cat \o <<" ">> \o <<">">> \o <<" ">> \o shellQuote(filepath)

(* The shell's reading of a line (POSIX Shell Command Language, 2.2 Quoting
   and 2.3 Token Recognition): a sequence of words, the redirection operator
   > among them marked as an operator.  plain is FALSE when the line holds
   anything the shell would not take literally: an expansion, a command
   separator, another operator, a backslash, an open quote. *)
Blank == {" ", "\t"}
Special == {"$", "\\", ";", "&", "|", "<", "(", ")", "\n", "*", "?", "[",
            "#", "~", "=", "%", "{", "}", "!"}
Word(text) == [text |-> text, operator |-> FALSE]
Operator(text) == [text |-> text, operator |-> TRUE]

RECURSIVE ShellRead(_, _, _, _, _, _)
ShellRead(line, i, quote, cur, inWord, acc) ==
    LET flush == IF inWord THEN Append(acc.words, Word(cur)) ELSE acc.words
    IN  IF i > Len(line)
        THEN [words |-> flush, plain |-> acc.plain /\ quote = "none"]
        ELSE LET c == line[i]
             IN  IF quote = "single"
                 THEN IF c = "'"
                      THEN ShellRead(line, i + 1, "none", cur, TRUE, acc)
                      ELSE ShellRead(line, i + 1, quote, Append(cur, c), TRUE, acc)
                 ELSE IF quote = "double"
                 THEN IF c = "\""
                      THEN ShellRead(line, i + 1, "none", cur, TRUE, acc)
                      ELSE ShellRead(line, i + 1, quote, Append(cur, c), TRUE,
                                     [acc EXCEPT !.plain = @ /\ c \notin {"$", "\\"}])
                 ELSE IF c = "'" THEN ShellRead(line, i + 1, "single", cur, TRUE, acc)
                 ELSE IF c = "\"" THEN ShellRead(line, i + 1, "double", cur, TRUE, acc)
                 ELSE IF c \in Blank
                 THEN ShellRead(line, i + 1, quote, <<>>, FALSE, [acc EXCEPT !.words = flush])
                 ELSE IF c = ">"
                 THEN ShellRead(line, i + 1, quote, <<>>, FALSE,
                                [acc EXCEPT !.words = Append(flush, Operator(<<c>>))])
                 ELSE ShellRead(line, i + 1, quote, Append(cur, c), TRUE,
                                [acc EXCEPT !.plain = @ /\ c \notin Special])

ShellWords(line) == ShellRead(line, 1, "none", <<>>, FALSE, [words |-> <<>>, plain |-> TRUE])

\* The command names, arguments and file paths handed to the remote executor.
ShellValues ==
    { <<>>, <<"a">>, <<"i","t","'","s">>, <<"a"," ","b">>, <<"'">>, <<"'","'">>,
      <<"$","(","x",")">>, <<"a",";","r","m">>, <<"\"">>, <<"a","\\">>,
      <<"'","\"","'","\"","'">>, <<"-","n">>, <<">">>, <<"*">>, <<"a","\n","b">>,
      <<" ">>, <<"\\","'">>, <<"/","d","/","x",".","v","m","a">> }
ShellNames == { <<"q","m">>, <<"a"," ","b">>, <<"'">> }
ShellArgs == {<<>>} \cup { <<v>> : v \in ShellValues }
             \cup { <<v, w>> : v \in {<<>>, <<"'">>, <<"a"," ","b">>}, w \in ShellValues }

NoLine == [op |-> "none", intended |-> <<>>, line |-> <<>>]

ShellInit ==
    /\ shell = NoLine
    /\ ExportIdle /\ StreamIdle /\ RunnerIdle /\ CacheIdle /\ CodecIdle /\ ImportIdle
    /\ CancelIdle /\ LiveIdle

\* The words of a line whose parts are all plain words.
Words(parts) == [i \in 1..Len(parts) |-> Word(parts[i])]

SSHRunner_RunLine ==
    /\ shell.op = "none"
    /\ \E name \in ShellNames, args \in ShellArgs :
        shell' = [op |-> "Run", intended |-> Words(<<name>> \o args),
                  line |-> runLine(name, args)]
    /\ UNCHANGED <<exportVars, streamVars, runnerVars, cacheVars, codecVars, importVars, cancelVars, liveVars>>

SSHRunner_Stat ==
    /\ shell.op = "none"
    /\ \E filepath \in ShellValues :
        shell' = [op |-> "Stat",
                  intended |-> Words(<< <<"s","t","a","t">>, <<"-","c">>,
                                        <<"%","s"," ","%","Y">>, S_dashdash, filepath >>),
                  line |-> statLine(filepath)]
    /\ UNCHANGED <<exportVars, streamVars, runnerVars, cacheVars, codecVars, importVars, cancelVars, liveVars>>

SSHRunner_Remove ==
    /\ shell.op = "none"
    /\ \E filepath \in ShellValues :
        shell' = [op |-> "Remove",
                  intended |-> Words(<< <<"r","m">>, <<"-","f">>, S_dashdash, filepath >>),
                  line |-> removeLine(filepath)]
    /\ UNCHANGED <<exportVars, streamVars, runnerVars, cacheVars, codecVars, importVars, cancelVars, liveVars>>

SSHRunner_OpenLine ==
    /\ shell.op = "none"
    /\ \E filepath \in ShellValues :
        shell' = [op |-> "Open",
                  intended |-> Words(<<S_cat, S_dashdash, filepath>>),
                  line |-> openLine(filepath)]
    /\ UNCHANGED <<exportVars, streamVars, runnerVars, cacheVars, codecVars, importVars, cancelVars, liveVars>>

SSHRunner_CreateLine ==
    /\ shell.op = "none"
    /\ \E filepath \in ShellValues :
        shell' = [op |-> "Create",
                  intended |-> <<Word(S_cat), Operator(<<">">>), Word(filepath)>>,
                  line |-> createLine(filepath)]
    /\ UNCHANGED <<exportVars, streamVars, runnerVars, cacheVars, codecVars, importVars, cancelVars, liveVars>>

ShellNext ==
    \/ SSHRunner_RunLine \/ SSHRunner_Stat \/ SSHRunner_Remove
    \/ SSHRunner_OpenLine \/ SSHRunner_CreateLine

ShellSpec == ShellInit /\ [][ShellNext]_vars

\* C38: the shell reads every line of the remote executor as the words it
\* was built from, each value as exactly one word equal to the value, and
\* takes nothing of the line as an expansion or an operator (but the > of
\* Create).
C38_QuotedValuesAreSingleWords ==
    shell.op # "none" =>
        ShellWords(shell.line) = [words |-> shell.intended, plain |-> TRUE]

\* A command whose name and arguments hold single quotes was run.
C38_Witness ==
    /\ shell.op = "Run"
    /\ shell.intended = Words(<< <<"'">>, <<"'">>, <<"i","t","'","s">> >>)
    /\ Len(shell.line) > 20

-----------------------------------------------------------------------------
(* Export: the staged names and the correlation state (specification Spec) *)

\* C26: every file Export writes to the staging directory has a canonical
\* name vzdump-<kind>-<id>-<timestamp>.<ext>, whatever the name of the entry.
C26_StagedNamesCanonical ==
    \A i \in 1..Len(trace) :
        trace[i].op = "Create" =>
            LET name == PathBase(trace[i].path)
            IN  /\ trace[i].path = PathJoin(cfg.DumpDir, name)
                /\ ParseDumpFilename(name).err = NoErr
                /\ VersionTags(name) = {}

\* C28: after each record no archive name is both in pendingDumps and in
\* metadataByArchive.
C28_NeverBothHalvesBuffered ==
    (DOMAIN pendingDumps) \cap (DOMAIN metadataByArchive) = {}

\* The payload of an archive was buffered, its sidecar arrived next and the
\* restore was attempted; another archive is still buffered.
C28_Witness ==
    /\ Len(received) = 3
    /\ isPayload(received[1]) /\ isPayload(received[2]) /\ isSidecar(received[3])
    /\ ArchiveOf(received[3]) = ArchiveOf(received[2])
    /\ ArchiveOf(received[1]) # ArchiveOf(received[2])
    /\ Restores(ArchiveOf(received[2])) # {}
    /\ DOMAIN pendingDumps = {ArchiveOf(received[1])}

\* C29: in the step in which the restore of an archive is attempted, with
\* both halves received, the archive leaves pendingDumps and
\* metadataByArchive, whether the attempt succeeds or fails.
C29_NoStateAfterRestoreAttempt ==
    [][\A n \in ArchiveNames :
         (\E i \in (Len(trace) + 1)..Len(trace') :
              trace'[i].op = "Run" /\ trace'[i].archive = n)
         => /\ n \notin DOMAIN pendingDumps'
            /\ n \notin DOMAIN metadataByArchive']_vars

\* C30: every record received has at most one result, and exactly one once
\* Export has returned and closed the results channel.
C30_OneResultPerRecord ==
    \A i \in 1..Len(received) :
        /\ Cardinality(ResultsOf(received[i].id)) <= 1
        /\ pc = "done" => Cardinality(ResultsOf(received[i].id)) = 1

====
